---- MODULE Spec2Model ----
(***************************************************************************)
(* Model of the dataset-ingestion pipeline of                              *)
(* docs/examples/batch-processing/ml-pipeline.js: DatasetStats,            *)
(* FileProcessor and MLPipeline, together with the ContentMetadata         *)
(* operations the pipeline calls (validate, verifyIntegrity).              *)
(***************************************************************************)
EXTENDS Integers, Sequences, FiniteSets, TLC

\* ------------------------------------------------------------------ bounds
\* Longest file or directory name, in characters, of the paths whose names
\* are studied.
MaxNameLen == 2
\* Longest value of EXCLUDE_PATTERNS, in characters.
MaxEnvLen == 3
\* Largest number of files and directories below a content root whose
\* discovery is studied.
MaxNodes == 3
\* Largest number of content items below the content root.
MaxItems == 2
\* CONFIG.maxFileSize of the modelled runs (MAX_FILE_SIZE of the environment).
MaxFileSize == 2
\* Largest number of file-system calls that fail (throw) during one run, the
\* walk of the root apart.
MaxFaults == 1

Range(q) == {q[i] : i \in DOMAIN q}

\* ------------------------------------------------------- metadata records
Origins == {"human", "ai", "hybrid"}

\* An absent field of a metadata record (undefined in the source).
NoValue == ""

\* A validate() that looks at the hash fields before the others.
validate_HashFirst(m) ==
  IF m.contentHash = NoValue THEN [isValid |-> FALSE, error |-> "MissingField(contentHash)"]
  ELSE IF m.hashAlgorithm = NoValue THEN [isValid |-> FALSE, error |-> "MissingField(hashAlgorithm)"]
  ELSE IF m.origin = NoValue THEN [isValid |-> FALSE, error |-> "MissingField(origin)"]
  ELSE IF m.author = NoValue THEN [isValid |-> FALSE, error |-> "MissingField(author)"]
  ELSE IF m.timestamp = NoValue THEN [isValid |-> FALSE, error |-> "MissingField(timestamp)"]
  ELSE [isValid |-> m.origin \in Origins /\ m.hashAlgorithm = "sha256", error |-> NoValue]

\* metadata.validate().  The record's fields are checked for presence in the
\* fixed order origin, author, timestamp, contentHash, hashAlgorithm; the
\* first violation is returned (never thrown).
validate(m) ==
  IF m.origin = NoValue THEN [isValid |-> FALSE, error |-> "MissingField(origin)"]
  ELSE IF m.origin \notin Origins THEN [isValid |-> FALSE, error |-> "InvalidEnum(origin)"]
  ELSE IF m.author = NoValue THEN [isValid |-> FALSE, error |-> "MissingField(author)"]
  ELSE IF m.timestamp = NoValue THEN [isValid |-> FALSE, error |-> "MissingField(timestamp)"]
  ELSE IF m.contentHash = NoValue THEN [isValid |-> FALSE, error |-> "MissingField(contentHash)"]
  ELSE IF m.hashAlgorithm = NoValue THEN [isValid |-> FALSE, error |-> "MissingField(hashAlgorithm)"]
  ELSE IF m.hashAlgorithm # "sha256" THEN [isValid |-> FALSE, error |-> "InvalidEnum(hashAlgorithm)"]
  ELSE [isValid |-> TRUE, error |-> NoValue]

\* The byte contents an item can have.
Contents == {"A", "B"}

\* computeHash(contentBytes): SHA-256 of the bytes, modelled as an injective
\* map from contents to digests.
computeHash(c) == IF c = "A" THEN "hashA" ELSE "hashB"

\* metadata.verifyIntegrity(content)
verifyIntegrity(m, c) == computeHash(c) = m.contentHash

\* metadata.toObject(): the plain object handed to recordFile.
toObject(m) == m

Meta(o, a, l, t, h) ==
  [origin |-> o, author |-> a, timestamp |-> "2025-07-09T12:00:00Z",
   contentHash |-> h, hashAlgorithm |-> "sha256", license |-> l, toolchain |-> t]

\* The value extractMetadata returns when no source yields a record (null).
NoMeta == Meta(NoValue, NoValue, NoValue, NoValue, NoValue)

\* Records that pass validate(); every one records the digest of content "A".
ValidMetas ==
  { Meta("human", "alice", "MIT", NoValue, "hashA"),
    Meta("ai", "bot", NoValue, "gpt", "hashA"),
    Meta("hybrid", "alice", "MIT", "gpt", "hashA") }

\* Records that fail validate(): the author is missing.
InvalidMetas ==
  { Meta("human", NoValue, NoValue, NoValue, "hashA"),
    Meta("ai", NoValue, NoValue, "gpt", "hashA") }

Metas == ValidMetas \cup InvalidMetas

\* ------------------------------------------------------------ DatasetStats
\* sizeStats.min before any item was processed.
Infinity == -1

\* A minimum that is the latest value.
MathMin_Latest(a, b) == b

MathMin(a, b) == IF a = Infinity THEN b ELSE IF b = Infinity THEN a ELSE IF a < b THEN a ELSE b
MathMax(a, b) == IF a > b THEN a ELSE b

\* counts[key] = (counts[key] || 0) + 1 on an object used as a map
Bump(counts, key) ==
  IF key \in DOMAIN counts
  THEN [counts EXCEPT ![key] = @ + 1]
  ELSE [k \in DOMAIN counts \cup {key} |-> IF k = key THEN 1 ELSE counts[k]]

EmptyMap == [k \in {} |-> 0]

\* DatasetStats.reset()
reset ==
  [totalFiles |-> 0, processedFiles |-> 0, skippedFiles |-> 0, errorFiles |-> 0,
   originCounts |-> [o \in Origins |-> 0],
   authorCounts |-> EmptyMap, licenseCounts |-> EmptyMap, toolchainCounts |-> EmptyMap,
   sizeStats |-> [min |-> Infinity, max |-> 0, total |-> 0],
   errors |-> <<>>]

\* A recordFile that counts the author only where it counts the license.
recordFile_AuthorWithLicense(s, metadata, fileSize, status) ==
  LET t == [s EXCEPT !.totalFiles = @ + 1] IN
  IF status = "processed" THEN
    [t EXCEPT !.processedFiles = @ + 1,
              !.originCounts = Bump(@, metadata.origin),
              !.authorCounts = IF metadata.license # NoValue THEN Bump(@, metadata.author) ELSE @,
              !.licenseCounts = IF metadata.license # NoValue THEN Bump(@, metadata.license) ELSE @,
              !.toolchainCounts = IF metadata.toolchain # NoValue THEN Bump(@, metadata.toolchain) ELSE @,
              !.sizeStats = [min |-> MathMin(@.min, fileSize),
                             max |-> MathMax(@.max, fileSize),
                             total |-> @.total + fileSize]]
  ELSE IF status = "skipped" THEN [t EXCEPT !.skippedFiles = @ + 1]
  ELSE IF status = "error" THEN [t EXCEPT !.errorFiles = @ + 1]
  ELSE t

\* A recordFile that updates the size aggregates whatever the status.
recordFile_SizeAlways(s, metadata, fileSize, status) ==
  LET t == [s EXCEPT !.totalFiles = @ + 1,
                     !.sizeStats = [min |-> MathMin(@.min, fileSize),
                                    max |-> MathMax(@.max, fileSize),
                                    total |-> @.total + fileSize]] IN
  IF status = "processed" THEN
    [t EXCEPT !.processedFiles = @ + 1,
              !.originCounts = Bump(@, metadata.origin),
              !.authorCounts = Bump(@, metadata.author),
              !.licenseCounts = IF metadata.license # NoValue THEN Bump(@, metadata.license) ELSE @,
              !.toolchainCounts = IF metadata.toolchain # NoValue THEN Bump(@, metadata.toolchain) ELSE @]
  ELSE IF status = "skipped" THEN [t EXCEPT !.skippedFiles = @ + 1]
  ELSE IF status = "error" THEN [t EXCEPT !.errorFiles = @ + 1]
  ELSE t

\* DatasetStats.recordFile(metadata, fileSize, status)
recordFile(s, metadata, fileSize, status) ==
  LET t == [s EXCEPT !.totalFiles = @ + 1] IN
  IF status = "processed" THEN
    [t EXCEPT !.processedFiles = @ + 1,
              !.originCounts = Bump(@, metadata.origin),
              !.authorCounts = Bump(@, metadata.author),
              !.licenseCounts = IF metadata.license # NoValue THEN Bump(@, metadata.license) ELSE @,
              !.toolchainCounts = IF metadata.toolchain # NoValue THEN Bump(@, metadata.toolchain) ELSE @,
              !.sizeStats = [min |-> MathMin(@.min, fileSize),
                             max |-> MathMax(@.max, fileSize),
                             total |-> @.total + fileSize]]
  ELSE IF status = "skipped" THEN [t EXCEPT !.skippedFiles = @ + 1]
  ELSE IF status = "error" THEN [t EXCEPT !.errorFiles = @ + 1]
  ELSE t

\* A recordError that keeps the latest failure only.
recordError_Latest(s, file, error) ==
  [s EXCEPT !.errors = <<[file |-> file, error |-> error]>>]

\* DatasetStats.recordError(file, error)
recordError(s, file, error) ==
  [s EXCEPT !.errors = Append(@, [file |-> file, error |-> error])]

\* ------------------------------------------------------------------ CONFIG
\* File names, patterns and environment values are sequences of characters.
Doc == <<"d", "o", "c">>
Tmp == <<"t", "m", "p">>
TmpDoc == <<"t", "m", "p", "_", "d", "o", "c">>

RECURSIVE split(_, _)
\* s.split(sep): the pieces of s between the occurrences of the character sep
\* (one piece, the empty one, for the empty s).
split(s, sep) ==
  IF \E i \in DOMAIN s : s[i] = sep
  THEN LET i == CHOOSE k \in DOMAIN s : s[k] = sep /\ \A j \in 1..(k - 1) : s[j] # sep
       IN <<SubSeq(s, 1, i - 1)>> \o split(SubSeq(s, i + 1, Len(s)), sep)
  ELSE <<s>>

\* CONFIG.excludePatterns (line 21): the non-empty pieces of EXCLUDE_PATTERNS,
\* the empty value when the variable is not set.
excludePatterns(env) ==
  {p \in {split(env, ",")[i] : i \in DOMAIN split(env, ",")} : Len(p) > 0}

\* The configurations of the modelled runs: STRICT_MODE, ALLOWED_ORIGINS and
\* EXCLUDE_PATTERNS vary, MAX_FILE_SIZE is MaxFileSize.  EXCLUDE_PATTERNS is
\* unset or is tmp, a substring of the base name tmp_doc and not of doc.
ExcludePatternSets == {excludePatterns(<<>>), excludePatterns(Tmp)}
AllowedOriginSets == {{"human"}, {"human", "hybrid"}}

\* The default configuration (no exclusion pattern, origin human) in both
\* modes, and the runs with an exclusion pattern under each allowed-origin set.
Configs ==
  { c \in [strictMode : BOOLEAN, maxFileSize : {MaxFileSize},
           allowedOrigins : AllowedOriginSets, excludePatterns : ExcludePatternSets] :
      c.excludePatterns = {} => c.allowedOrigins = {"human"} }

\* ------------------------------------------------------- the content tree
\* What the file system holds for one discovered path when processFile reads
\* it: the result of statSync, the base name, the sidecar <path>.meta.xml, the
\* embedded tags of a .html item, and the item's bytes.
BaseNames == {Doc, TmpDoc}
SidecarStates == {"absent", "unreadable", "malformed", "ok"}
EmbeddedStates == {"nothtml", "unreadable", "notags", "ok"}

\* fileName.includes(pattern): pattern occurs in name at some offset
Includes(name, pattern) ==
  \E i \in 1..(Len(name) - Len(pattern) + 1) :
     SubSeq(name, i, i + Len(pattern) - 1) = pattern

\* The sizes of the items: the smallest, the limit, and one byte above it.
Sizes == {1, MaxFileSize, MaxFileSize + 1}

WellFormedItem(it) ==
  /\ (it.sidecar = "ok") = (it.sidecarMeta # NoMeta)
  /\ (it.embedded = "ok") = (it.embeddedMeta # NoMeta)
  \* a .html item that cannot be read cannot be read for its tags either
  /\ it.embedded # "nothtml" => ((it.embedded = "unreadable") = ~it.readOk)
  \* an item that cannot be stat'ed has nothing else to look at
  /\ ~it.statOk => /\ it.size = 1 /\ it.baseName = Doc /\ it.sidecar = "absent"
                   /\ it.embedded = "nothtml" /\ ~it.readOk /\ it.content = "A"
  \* oversized items and items named tmp_doc (the name an exclusion pattern
  \* matches) carry no source of metadata: the size and exclusion checks are
  \* what they exercise
  /\ (it.statOk /\ (it.size > MaxFileSize \/ it.baseName # Doc)) =>
        /\ it.sidecar = "absent" /\ it.embedded = "nothtml" /\ it.readOk /\ it.content = "A"
  /\ (it.sidecar = "ok" /\ it.embedded = "ok") => it.sidecarMeta = it.embeddedMeta
  /\ ~it.readOk => it.content = "A"
  /\ (it.sidecar # "ok" /\ it.embedded # "ok") => it.content = "A"
  /\ (it.sidecarMeta \in InvalidMetas \/ it.embeddedMeta \in InvalidMetas) => it.content = "A"

\* The items of a run.  The size of a sidecar plays no part in what becomes of
\* an item, so the runs keep it at one byte.
ItemStates ==
  { it \in [statOk : BOOLEAN, size : Sizes, baseName : BaseNames,
            sidecar : SidecarStates, sidecarMeta : Metas \cup {NoMeta}, sidecarSize : {1},
            embedded : EmbeddedStates, embeddedMeta : Metas \cup {NoMeta},
            readOk : BOOLEAN, content : Contents] : WellFormedItem(it) }

\* ----------------------------------------------------------- FileProcessor
\* One step of extractMetadata: a file is read, its text is handed to a
\* parser, or a failure is logged (Logger.debug); size is the number of bytes
\* read or parsed.
Step(do, source, size) == [do |-> do, source |-> source, size |-> size]

\* An extractMetadata that looks at the embedded tags of a .html item before
\* the sidecar.
extractSteps_EmbeddedFirst(it) ==
  IF it.embedded = "ok"
  THEN [metadata |-> it.embeddedMeta,
        trace |-> <<Step("read", "item", it.size), Step("parse", "item", it.size)>>]
  ELSE [metadata |-> IF it.sidecar = "ok" THEN it.sidecarMeta ELSE NoMeta,
        trace |-> <<Step("read", "sidecar", it.sidecarSize)>>]

\* FileProcessor.extractMetadata(filePath), lines 177-200: the record it
\* returns (NoMeta for null) and the steps it takes.  The sidecar comes first;
\* what it parses to is returned as it is.  A read or a parse that throws is
\* logged and the next source is tried: the embedded tags, for a .html item.
extractSteps(it) ==
  LET readSidecar == Step("read", "sidecar", it.sidecarSize)
      parseSidecar == Step("parse", "sidecar", it.sidecarSize)
      readItem == Step("read", "item", it.size)
      parseItem == Step("parse", "item", it.size)
      sidecar ==
        IF it.sidecar = "absent" THEN <<>>                      \* fs.existsSync(sidecarPath)
        ELSE IF it.sidecar = "unreadable"                       \* readFileSync threw
        THEN <<readSidecar, Step("log", "sidecar", 0)>>
        ELSE IF it.sidecar = "malformed"                        \* parseXML threw
        THEN <<readSidecar, parseSidecar, Step("log", "sidecar", 0)>>
        ELSE <<readSidecar, parseSidecar>>
  IN IF it.sidecar = "ok"
     THEN [metadata |-> it.sidecarMeta, trace |-> sidecar]
     ELSE IF it.embedded = "nothtml"                            \* filePath.endsWith('.html')
     THEN [metadata |-> NoMeta, trace |-> sidecar]
     ELSE IF it.embedded = "unreadable"                         \* readFileSync threw
     THEN [metadata |-> NoMeta, trace |-> sidecar \o <<readItem, Step("log", "item", 0)>>]
     ELSE [metadata |-> IF it.embedded = "ok" THEN it.embeddedMeta ELSE NoMeta,
           trace |-> sidecar \o <<readItem, parseItem>>]

\* FileProcessor.extractMetadata(filePath): the record returned.
extractMetadata(it) == extractSteps(it).metadata

\* The calls a processFile makes on DatasetStats, in order.
RecFile(metadata, fileSize, status) ==
  [op |-> "recordFile", metadata |-> metadata, fileSize |-> fileSize,
   status |-> status, file |-> 0, error |-> NoValue]
RecErr(file, error) ==
  [op |-> "recordError", metadata |-> NoMeta, fileSize |-> 0,
   status |-> NoValue, file |-> file, error |-> error]

\* One way out of processFile: the DatasetStats calls made, whether a result
\* object (not null) is returned, whether an exception leaves processFile, and
\* the stages that ran.
Outcome(ops, ret, stages) == [ops |-> ops, ret |-> ret, thrown |-> FALSE, stages |-> stages]

\* A catch branch that logs the error and forgets to count the item.
Catch_NoRecordFile(file, message, stages) ==
  Outcome(<<RecErr(file, message)>>, FALSE, stages)

\* A catch branch that records the error and throws it again.
Catch_Rethrow(file, message, stages) ==
  [ops |-> <<RecErr(file, message), RecFile(NoMeta, 0, "error")>>, ret |-> FALSE,
   thrown |-> TRUE, stages |-> stages]

\* The catch branch of processFile (lines 169-174).
Catch(file, message, stages) ==
  Outcome(<<RecErr(file, message), RecFile(NoMeta, 0, "error")>>, FALSE, stages)

\* The size branch of processFile (lines 120-124).
TooLarge(it, stages) ==
  Outcome(<<RecFile(NoMeta, it.size, "skipped")>>, FALSE, stages)

\* The exclusion branch of processFile (lines 127-131).
Excluded(it, stages) ==
  Outcome(<<RecFile(NoMeta, it.size, "skipped")>>, FALSE, stages)

\* A no-metadata branch that treats absent metadata as an error.
NoMetadataFound_Error(it, stages) ==
  Outcome(<<RecErr(0, "No metadata found"), RecFile(NoMeta, it.size, "error")>>, FALSE, stages)

\* The no-metadata branch of processFile (lines 135-139).
NoMetadataFound(it, stages) ==
  Outcome(<<RecFile(NoMeta, it.size, "skipped")>>, FALSE, stages)

\* A validation branch that counts a malformed record as skipped.
ValidationFailed_Skipped(file, it, validation, stages) ==
  Outcome(<<RecFile(NoMeta, it.size, "skipped")>>, FALSE, stages)

\* The validation branch of processFile (lines 143-148).
ValidationFailed(file, it, validation, stages) ==
  Outcome(<<RecErr(file, "Invalid metadata: " \o validation.error),
            RecFile(NoMeta, it.size, "error")>>,
          FALSE, stages)

\* An origin branch that lets the item through.
OriginRejected_Accepted(it, stages) ==
  Outcome(<<RecFile(toObject(extractMetadata(it)), it.size, "processed")>>, TRUE, stages)

\* The origin branch of processFile (lines 151-155).
OriginRejected(it, stages) ==
  Outcome(<<RecFile(NoMeta, it.size, "skipped")>>, FALSE, stages)

\* A processFile that takes the content as it is, whatever it hashes to.
IntegrityFailed_Ignored(file, it, cfg, stages) ==
  Outcome(<<RecFile(toObject(extractMetadata(it)), it.size, "processed")>>, TRUE, stages)

\* The integrity branch of processFile (lines 159-164).
IntegrityFailed(file, it, cfg, stages) ==
  Outcome(<<RecErr(file, "Content integrity check failed"),
            RecFile(NoMeta, it.size, "error")>>,
          ~cfg.strictMode, stages)

\* The end of processFile's try block (lines 166-167).
Processed(it, metadata, stages) ==
  Outcome(<<RecFile(toObject(metadata), it.size, "processed")>>, TRUE, stages)

\* FileProcessor.processFile(filePath), with the item's state as read from the
\* file system.  The stages are named in the order the code runs them.
processFile(file, it, cfg) ==
  IF ~it.statOk THEN Catch(file, "ENOENT", <<"stat">>)
  ELSE IF it.size > cfg.maxFileSize
  THEN TooLarge(it, <<"stat", "size">>)
  ELSE IF \E pattern \in cfg.excludePatterns : Includes(it.baseName, pattern)
  THEN Excluded(it, <<"stat", "size", "exclude">>)
  ELSE
    LET metadata == extractMetadata(it) IN
    IF metadata = NoMeta
    THEN NoMetadataFound(it, <<"stat", "size", "exclude", "extract">>)
    ELSE IF ~validate(metadata).isValid
    THEN ValidationFailed(file, it, validate(metadata),
                          <<"stat", "size", "exclude", "extract", "validate">>)
    ELSE IF metadata.origin \notin cfg.allowedOrigins
    THEN OriginRejected(it, <<"stat", "size", "exclude", "extract", "validate", "filter">>)
    ELSE IF ~it.readOk
    THEN Catch(file, "EACCES",
               <<"stat", "size", "exclude", "extract", "validate", "filter", "read">>)
    ELSE IF ~verifyIntegrity(metadata, it.content)
    THEN IntegrityFailed(file, it, cfg,
               <<"stat", "size", "exclude", "extract", "validate", "filter", "read",
                 "integrity">>)
    ELSE Processed(it, metadata,
               <<"stat", "size", "exclude", "extract", "validate", "filter", "read",
                 "integrity">>)

RECURSIVE ApplyOps(_, _)
\* The DatasetStats after the calls `ops`, applied in order.
ApplyOps(s, ops) ==
  IF ops = <<>> THEN s
  ELSE LET o == Head(ops) IN
       ApplyOps(IF o.op = "recordFile"
                THEN recordFile(s, o.metadata, o.fileSize, o.status)
                ELSE recordError(s, o.file, o.error),
                Tail(ops))

\* ------------------------------------------------------------- MLPipeline
VARIABLES
  CONFIG,          \* the configuration of the run
  fs,              \* the content root: is it readable, and the kind of each item in it
  pc,              \* where run() is: start, processing, copying, done, failed
  files,           \* the paths findFiles returned
  idx,             \* index in files of the next item of the processing loop
  stats,           \* the DatasetStats of the pipeline
  processedFiles,  \* run()'s list of the non-null results of processFile
  cidx,            \* index in processedFiles of the next item of the copy loop
  output,          \* the paths whose content / sidecar exist under the output root
  emitted,         \* <<report, manifest>> once generateReports has written them
  exitCode,        \* the completion status of the process, once pc is done or failed
  last,            \* the item the latest processFile handled, and how it ended
  faults,          \* how many file-system calls have failed so far
  probe            \* the call under study and its result, when one operation is run alone

vars == <<CONFIG, fs, pc, files, idx, stats, processedFiles, cidx, output,
          emitted, exitCode, last, faults, probe>>

\* The file-system calls that fail while processFile handles the item.
ItemFaults(it) ==
  IF ~it.statOk THEN 1
  ELSE (IF it.sidecar = "unreadable" THEN 1 ELSE 0) + (IF ~it.readOk THEN 1 ELSE 0)

\* MLPipeline.findFiles(CONFIG.datasetPath): the processable paths below the
\* root, numbered in the order of the traversal.
findFiles(tree) == [i \in 1..Len(tree.items) |-> i]

\* The facts about an item that decide what becomes of it.
Facts(it) ==
  LET m == extractMetadata(it) IN
  [statOk |-> it.statOk,
   big |-> it.size > MaxFileSize,
   baseName |-> it.baseName,
   ioFail |-> it.sidecar = "unreadable" \/ (it.sidecar # "ok" /\ it.embedded = "unreadable"),
   hasMeta |-> m # NoMeta,
   valid |-> m # NoMeta /\ validate(m).isValid,
   origin |-> m.origin,
   readOk |-> it.readOk,
   tampered |-> m # NoMeta /\ validate(m).isValid /\ it.readOk
                /\ computeHash(it.content) # m.contentHash]

NoFacts ==
  [statOk |-> FALSE, big |-> FALSE, baseName |-> Doc, ioFail |-> FALSE,
   hasMeta |-> FALSE, valid |-> FALSE, origin |-> NoValue, readOk |-> FALSE,
   tampered |-> FALSE]

NoLast ==
  [file |-> 0, facts |-> NoFacts, status |-> NoValue, calls |-> 0,
   stages |-> <<>>, ret |-> FALSE, errors |-> 0]

\* The kinds of item the scenarios of the specification speak of.
Kind(f) ==
  IF f.statOk /\ ~f.big /\ f.baseName = Doc /\ f.valid /\ f.readOk /\ ~f.tampered
  THEN (IF f.origin = "human" THEN "humanOk" ELSE IF f.origin = "ai" THEN "aiOk" ELSE "other")
  ELSE IF f.statOk /\ ~f.big /\ f.baseName = Doc /\ ~f.hasMeta /\ ~f.ioFail
  THEN "noMetadata"
  ELSE "other"

\* Scenario A of the specification: three items, one human-origin with
\* matching hash, one ai-origin with matching hash, one without metadata, in
\* any order.
ScenarioATrees ==
  { [rootOk |-> TRUE, items |-> t] :
      t \in { u \in [1..3 -> {"humanOk", "aiOk", "noMetadata"}] :
                \A i, j \in 1..3 : i # j => u[i] # u[j] } }

\* The content roots of the runs: up to MaxItems items, each of any kind, and
\* the roots of Scenario A.
Trees ==
  { [rootOk |-> ok, items |-> [i \in 1..n |-> "any"]] : ok \in BOOLEAN, n \in 0..MaxItems }
    \cup ScenarioATrees

\* The item state `it` is one the tree allows for the path `file`.
InTree(tree, file, it) ==
  tree.items[file] = "any" \/ Kind(Facts(it)) = tree.items[file]

RecordFileCalls(ops) == Cardinality({i \in DOMAIN ops : ops[i].op = "recordFile"})
RecordErrorCalls(ops) == Cardinality({i \in DOMAIN ops : ops[i].op = "recordError"})
LastStatus(ops) ==
  LET c == {i \in DOMAIN ops : ops[i].op = "recordFile"} IN
  IF c = {} THEN NoValue ELSE ops[CHOOSE i \in c : \A j \in c : j <= i].status

\* No operation is run alone.
NoProbe == [op |-> "none"]

Init ==
  /\ CONFIG \in Configs
  /\ fs \in Trees
  /\ pc = "start"
  /\ files = <<>>
  /\ idx = 1
  /\ stats = reset
  /\ processedFiles = <<>>
  /\ cidx = 1
  /\ output = [content |-> {}, sidecar |-> {}]
  /\ emitted = <<>>
  /\ exitCode = 0
  /\ last = NoLast
  /\ faults = 0
  /\ probe = NoProbe

\* run(), lines 210-224: the output directory is made and the root is walked.
\* readdirSync of a missing or unreadable root throws; the rejection reaches
\* the CLI's catch handler, which exits with status 1.
Discover ==
  /\ pc = "start"
  /\ IF fs.rootOk
     THEN /\ files' = findFiles(fs)
          /\ pc' = IF findFiles(fs) = <<>> THEN "copying" ELSE "processing"
          /\ exitCode' = exitCode
     ELSE /\ files' = files
          /\ pc' = "failed"
          /\ exitCode' = 1
  /\ UNCHANGED <<CONFIG, fs, idx, stats, processedFiles, cidx, output, emitted, last, faults,
                 probe>>

\* run(), lines 226-233: one turn of the processing loop.
ProcessFile ==
  /\ pc = "processing"
  /\ idx <= Len(files)
  /\ \E it \in ItemStates :
       LET r == processFile(files[idx], it, CONFIG)
           f == Facts(it)
       IN /\ InTree(fs, files[idx], it)
          /\ faults + ItemFaults(it) <= MaxFaults
          /\ faults' = faults + ItemFaults(it)
          /\ stats' = ApplyOps(stats, r.ops)
          /\ processedFiles' =
               IF r.ret
               THEN Append(processedFiles,
                           [filePath |-> files[idx], metadata |-> extractMetadata(it),
                            content |-> it.content])
               ELSE processedFiles
          /\ last' = [file |-> files[idx], facts |-> f, status |-> LastStatus(r.ops),
                      calls |-> RecordFileCalls(r.ops), stages |-> r.stages,
                      ret |-> r.ret, errors |-> RecordErrorCalls(r.ops)]
          \* an exception that left processFile would reject run()
          /\ pc' = IF r.thrown THEN "failed"
                   ELSE IF idx + 1 > Len(files) THEN "copying" ELSE "processing"
          /\ exitCode' = IF r.thrown THEN 1 ELSE exitCode
  /\ idx' = idx + 1
  /\ UNCHANGED <<CONFIG, fs, files, cidx, output, emitted, probe>>

\* What can happen to one turn of the copy loop: both files are written, or a
\* call throws before the content is written (mkdirSync, the first
\* writeFileSync), or after it (toXML, the second writeFileSync).
CopyOutcomes == {"ok", "failBeforeContent", "failBeforeSidecar"}

\* copyCleanFiles, lines 270-293: one turn of the copy loop.
copyCleanFile(out, s, entry, outcome) ==
  [output |-> [content |-> IF outcome = "failBeforeContent" THEN out.content
                           ELSE out.content \cup {entry.filePath},
               sidecar |-> IF outcome = "ok" THEN out.sidecar \cup {entry.filePath}
                           ELSE out.sidecar],
   stats |-> IF outcome = "ok" THEN s ELSE recordError(s, entry.filePath, "EIO")]

CopyCleanFile ==
  /\ pc = "copying"
  /\ cidx <= Len(processedFiles)
  /\ \E outcome \in CopyOutcomes :
       LET r == copyCleanFile(output, stats, processedFiles[cidx], outcome)
       IN /\ outcome # "ok" => faults < MaxFaults
          /\ faults' = IF outcome = "ok" THEN faults ELSE faults + 1
          /\ output' = r.output
          /\ stats' = r.stats
  /\ cidx' = cidx + 1
  /\ UNCHANGED <<CONFIG, fs, pc, files, idx, processedFiles, emitted, exitCode, last, probe>>

\* A percentage with one fraction digit, (num / den * 100).toFixed(1), in
\* tenths of a percent.
ToFixed1(num, den) == (2000 * num + den) \div (2 * den)

\* The value of a percentage whose denominator is zero (NaN).
NaN == -1

\* A getReport whose average drops the fraction (Math.floor).
getReport_Truncated(s) ==
  [summary |-> [totalFiles |-> s.totalFiles, processedFiles |-> s.processedFiles,
                skippedFiles |-> s.skippedFiles, errorFiles |-> s.errorFiles,
                successRate |-> IF s.totalFiles > 0
                                THEN ToFixed1(s.processedFiles, s.totalFiles) ELSE 0],
   origins |-> s.originCounts,
   authors |-> Cardinality(DOMAIN s.authorCounts),
   licenses |-> Cardinality(DOMAIN s.licenseCounts),
   toolchains |-> Cardinality(DOMAIN s.toolchainCounts),
   fileSize |-> [min |-> IF s.sizeStats.min = Infinity THEN 0 ELSE s.sizeStats.min,
                 max |-> s.sizeStats.max,
                 average |-> IF s.processedFiles > 0
                             THEN s.sizeStats.total \div s.processedFiles
                             ELSE 0,
                 total |-> s.sizeStats.total],
   errors |-> s.errors]

\* DatasetStats.getReport()
getReport(s) ==
  [summary |-> [totalFiles |-> s.totalFiles, processedFiles |-> s.processedFiles,
                skippedFiles |-> s.skippedFiles, errorFiles |-> s.errorFiles,
                successRate |-> IF s.totalFiles > 0
                                THEN ToFixed1(s.processedFiles, s.totalFiles) ELSE 0],
   origins |-> s.originCounts,
   authors |-> Cardinality(DOMAIN s.authorCounts),
   licenses |-> Cardinality(DOMAIN s.licenseCounts),
   toolchains |-> Cardinality(DOMAIN s.toolchainCounts),
   fileSize |-> [min |-> IF s.sizeStats.min = Infinity THEN 0 ELSE s.sizeStats.min,
                 max |-> s.sizeStats.max,
                 average |-> IF s.processedFiles > 0
                             THEN (2 * s.sizeStats.total + s.processedFiles)
                                    \div (2 * s.processedFiles)
                             ELSE 0,
                 total |-> s.sizeStats.total],
   errors |-> s.errors]

\* The manifest generateReports writes (lines 330-344).
Manifest(rep, cfg) ==
  [version |-> "1.0", configuration |-> cfg, statistics |-> rep.summary,
   originDistribution |-> rep.origins,
   qualityMetrics |->
     [integrityVerified |-> TRUE, metadataCompliant |-> TRUE,
      humanContentPercentage |->
        IF rep.summary.processedFiles = 0 THEN NaN
        ELSE ToFixed1(rep.origins["human"], rep.summary.processedFiles)]]

\* The completion status of a run whose run() promise resolved: nothing sets
\* a status, so the process ends with 0 (lines 350-356).
ExitStatus(s, cfg) == 0

\* run(), lines 238-241: the reports are written and run() returns.
GenerateReports ==
  /\ pc = "copying"
  /\ cidx > Len(processedFiles)
  /\ emitted' = <<getReport(stats), Manifest(getReport(stats), CONFIG)>>
  /\ pc' = "done"
  /\ exitCode' = ExitStatus(stats, CONFIG)
  /\ UNCHANGED <<CONFIG, fs, files, idx, stats, processedFiles, cidx, output, last, faults,
                 probe>>

Next == Discover \/ ProcessFile \/ CopyCleanFile \/ GenerateReports

Spec == Init /\ [][Next]_vars

\* The runs under the default EXCLUDE_PATTERNS and ALLOWED_ORIGINS, in both
\* modes.
InitDefault == Init /\ CONFIG.excludePatterns = {}

\* The steps of run() follow one another without waiting on anything: a run
\* that can take a step takes it.
FairSpec == InitDefault /\ [][Next]_vars /\ WF_vars(Next)


\* The runs of the default configuration, without the fairness of FairSpec.
DefaultSpec == InitDefault /\ [][Next]_vars

\* ------------------------------------------- one item, one call at a time
\* The state of the pipeline while one operation is run alone.
Idle ==
  /\ fs = [rootOk |-> TRUE, items |-> <<>>]
  /\ pc = "idle"
  /\ files = <<>>
  /\ idx = 1
  /\ stats = reset
  /\ processedFiles = <<>>
  /\ cidx = 1
  /\ output = [content |-> {}, sidecar |-> {}]
  /\ emitted = <<>>
  /\ exitCode = 0
  /\ last = NoLast
  /\ faults = 0

\* The items one call is studied on: any size of the item and of its sidecar,
\* any state of the two sources of metadata (which need not agree), any
\* content.
WellFormedProbeItem(it) ==
  /\ (it.sidecar = "ok") = (it.sidecarMeta # NoMeta)
  /\ (it.embedded = "ok") = (it.embeddedMeta # NoMeta)
  /\ it.embedded # "nothtml" => ((it.embedded = "unreadable") = ~it.readOk)
  /\ it.sidecar = "absent" => it.sidecarSize = 1
  /\ ~it.statOk => /\ it.size = 1 /\ it.baseName = Doc /\ it.sidecar = "absent"
                   /\ it.embedded = "nothtml" /\ ~it.readOk
  /\ ~it.readOk => it.content = "A"

ProbeItems ==
  { it \in [statOk : BOOLEAN, size : Sizes, baseName : BaseNames,
            sidecar : SidecarStates, sidecarMeta : Metas \cup {NoMeta}, sidecarSize : Sizes,
            embedded : EmbeddedStates, embeddedMeta : Metas \cup {NoMeta},
            readOk : BOOLEAN, content : Contents] : WellFormedProbeItem(it) }

\* The reads, parses and log calls of one processFile that ran `stages`:
\* those of extractMetadata, then the read of the content (line 158).
processSteps(it, stages) ==
  (IF "extract" \in Range(stages) THEN extractSteps(it).trace ELSE <<>>)
    \o (IF "read" \in Range(stages) THEN <<Step("read", "item", it.size)>> ELSE <<>>)

NoOutcome == [ops |-> <<>>, ret |-> FALSE, thrown |-> FALSE, stages |-> <<>>]

InitItem ==
  /\ CONFIG \in Configs
  /\ Idle
  /\ probe \in { [op |-> "ready", item |-> it, metadata |-> NoMeta, trace |-> <<>>,
                   outcome |-> NoOutcome] : it \in ProbeItems }

\* processor.extractMetadata(filePath) on the item
CallExtractMetadata ==
  /\ probe.op = "ready"
  /\ probe' = [probe EXCEPT !.op = "extractMetadata",
                            !.metadata = extractSteps(probe.item).metadata,
                            !.trace = extractSteps(probe.item).trace]
  /\ UNCHANGED <<CONFIG, fs, pc, files, idx, stats, processedFiles, cidx, output, emitted,
                 exitCode, last, faults>>

\* processor.processFile(filePath) on the item, with fresh statistics
CallProcessFile ==
  /\ probe.op = "ready"
  /\ LET r == processFile(1, probe.item, CONFIG)
     IN /\ probe' = [probe EXCEPT !.op = "processFile",
                                  !.metadata = IF "extract" \in Range(r.stages)
                                               THEN extractMetadata(probe.item) ELSE NoMeta,
                                  !.trace = processSteps(probe.item, r.stages),
                                  !.outcome = r]
        /\ stats' = ApplyOps(stats, r.ops)
  /\ UNCHANGED <<CONFIG, fs, pc, files, idx, processedFiles, cidx, output, emitted,
                 exitCode, last, faults>>

NextItem == CallExtractMetadata \/ CallProcessFile

ItemSpec == InitItem /\ [][NextItem]_vars

\* ------------------------------------------------- names and exclusion
\* Sequences over `alphabet` of length lo..hi.
SeqsOf(alphabet, lo, hi) == UNION {[1..n -> alphabet] : n \in lo..hi}

\* File and directory names; a path below the content root is the sequence
\* of its components; the values EXCLUDE_PATTERNS can have.
Names == SeqsOf({"a", "b"}, 1, MaxNameLen)
Paths == {<<base>> : base \in Names} \cup {<<dir, base>> : dir \in Names, base \in Names}
EnvValues == SeqsOf({"a", "b", ","}, 0, MaxEnvLen)

RECURSIVE join(_)
\* The path as one string, its components separated by "/".
join(path) ==
  IF Len(path) = 1 THEN path[1] ELSE path[1] \o <<"/">> \o join(Tail(path))

\* A file name that is the whole path.
basename_FullPath(filePath) == join(filePath)

\* path.basename(filePath), line 115
basename(filePath) == filePath[Len(filePath)]

\* A regular file at filePath, of the given size, without any metadata.
PlainItem(filePath, size) ==
  [statOk |-> TRUE, size |-> size, baseName |-> basename(filePath),
   sidecar |-> "absent", sidecarMeta |-> NoMeta, sidecarSize |-> 1,
   embedded |-> "nothtml", embeddedMeta |-> NoMeta, readOk |-> TRUE, content |-> "A"]

\* CONFIG as the module builds it when only EXCLUDE_PATTERNS is set (lines 14-22).
ConfigOf(env) ==
  [strictMode |-> FALSE, maxFileSize |-> MaxFileSize, allowedOrigins |-> {"human"},
   excludePatterns |-> excludePatterns(env)]

InitExclude ==
  /\ Idle
  /\ \E env \in EnvValues :
       /\ CONFIG = ConfigOf(env)
       /\ probe \in { [op |-> "ready", env |-> env, filePath |-> path, size |-> size,
                        outcome |-> NoOutcome] :
                         path \in Paths, size \in {1, MaxFileSize + 1} }

\* processor.processFile(filePath) on a plain file
CallProcessPath ==
  /\ probe.op = "ready"
  /\ LET r == processFile(probe.filePath, PlainItem(probe.filePath, probe.size), CONFIG)
     IN /\ probe' = [probe EXCEPT !.op = "processPath", !.outcome = r]
        /\ stats' = ApplyOps(stats, r.ops)
  /\ UNCHANGED <<CONFIG, fs, pc, files, idx, processedFiles, cidx, output, emitted,
                 exitCode, last, faults>>

NextExclude == CallProcessPath

ExcludeSpec == InitExclude /\ [][NextExclude]_vars

\* -------------------------------------------------------------- discovery
DotTxt == <<".", "t", "x", "t">>
DotMd == <<".", "m", "d">>
DotHtml == <<".", "h", "t", "m", "l">>
DotJson == <<".", "j", "s", "o", "n">>
DotMetaXml == <<".", "m", "e", "t", "a", ".", "x", "m", "l">>

\* The names of the files and of the directories below the roots studied:
\* one file of each content extension, a sidecar, a file without extension;
\* a plain directory name and one that ends in a content extension.
FileNames ==
  { <<"a">> \o DotTxt, <<"b">> \o DotMd, <<"c">> \o DotHtml, <<"d">> \o DotJson,
    <<"a">> \o DotTxt \o DotMetaXml, <<"n">> }
DirNames == { <<"s">>, <<"d">> \o DotTxt }

\* An entry of a directory as fs.readdirSync and fs.statSync show it: its
\* name, whether it is a directory, and for a directory its own entries in
\* the order readdirSync returns them.
File(name) == [name |-> name, isDirectory |-> FALSE, entries |-> <<>>]
Dir(name, entries) == [name |-> name, isDirectory |-> TRUE, entries |-> entries]

RECURSIVE Listings(_)
\* The listings of a directory with n files and directories below it, in
\* every order readdirSync can return them (the order is not specified).
Listings(n) ==
  IF n = 0 THEN {<<>>}
  ELSE UNION {
         { <<first>> \o rest :
             first \in (IF k = 1 THEN {File(name) : name \in FileNames} ELSE {})
                         \cup {Dir(name, sub) : name \in DirNames, sub \in Listings(k - 1)},
             rest \in Listings(n - k) } : k \in 1..n }

RECURSIVE DistinctNames(_)
\* The names in one directory differ.
DistinctNames(entries) ==
  /\ \A i, j \in DOMAIN entries : i # j => entries[i].name # entries[j].name
  /\ \A i \in DOMAIN entries : DistinctNames(entries[i].entries)

\* The content roots whose discovery is studied.
Roots == UNION { {l \in Listings(n) : DistinctNames(l)} : n \in 0..MaxNodes }

\* filename.endsWith(ext)
endsWith(filename, ext) ==
  /\ Len(filename) >= Len(ext)
  /\ SubSeq(filename, Len(filename) - Len(ext) + 1, Len(filename)) = ext

\* An isProcessableFile that looks for the extension anywhere in the name.
isProcessableFile_Anywhere(filename) ==
  \E ext \in {DotTxt, DotMd, DotHtml, DotJson} : Includes(filename, ext)

\* MLPipeline.isProcessableFile(filename), lines 262-265
isProcessableFile(filename) ==
  /\ \E ext \in {DotTxt, DotMd, DotHtml, DotJson} : endsWith(filename, ext)
  /\ ~endsWith(filename, DotMetaXml)

RECURSIVE findFilesIn(_, _)
\* MLPipeline.findFiles(directory), lines 244-260, for the directory at path
\* `directory` whose readdirSync returns `items`: the paths of the processable
\* files below it, in the order the entries are met.
findFilesIn(directory, items) ==
  IF items = <<>> THEN <<>>
  ELSE LET item == Head(items)
           fullPath == Append(directory, item.name)       \* path.join(directory, item)
       IN (IF item.isDirectory THEN findFilesIn(fullPath, item.entries)
           ELSE IF isProcessableFile(item.name) THEN <<fullPath>>
           ELSE <<>>)
          \o findFilesIn(directory, Tail(items))

InitDiscovery ==
  /\ CONFIG = ConfigOf(<<>>)
  /\ Idle
  /\ probe \in { [op |-> "ready", root |-> root, files |-> <<>>] : root \in Roots }

\* this.findFiles(CONFIG.datasetPath), line 223
CallFindFiles ==
  /\ probe.op = "ready"
  /\ probe' = [probe EXCEPT !.op = "findFiles", !.files = findFilesIn(<<>>, probe.root)]
  /\ UNCHANGED <<CONFIG, fs, pc, files, idx, stats, processedFiles, cidx, output, emitted,
                 exitCode, last, faults>>

NextDiscovery == CallFindFiles

DiscoverySpec == InitDiscovery /\ [][NextDiscovery]_vars

\* ------------------------------------------------------------ run after run
\* The items of the content roots that are run more than once: no .html
\* items, no I/O failure other than an item that cannot be stat'ed; what is
\* not of origin human is one byte long and matches its hash.
RerunItems ==
  { it \in ItemStates :
      /\ it.baseName = Doc /\ it.embedded = "nothtml"
      /\ it.sidecar \in {"absent", "ok"}
      /\ it.statOk => it.readOk
      /\ (it.sidecar = "ok" /\ it.sidecarMeta \notin ValidMetas) => it.size = 1
      /\ (it.sidecar = "ok" /\ it.sidecarMeta.origin # "human")
            => (it.size = 1 /\ it.content = "A") }

RerunTrees ==
  UNION { [1..n -> RerunItems] : n \in 0..MaxItems }

RECURSIVE processAll(_, _, _, _, _)
\* run(), lines 226-233: the processing loop from item `file` on, over the
\* items as the file system holds them.
processAll(s, results, items, file, cfg) ==
  IF file > Len(items) THEN [stats |-> s, processedFiles |-> results]
  ELSE LET r == processFile(file, items[file], cfg)
       IN processAll(ApplyOps(s, r.ops),
                     IF r.ret
                     THEN Append(results, [filePath |-> file,
                                           metadata |-> extractMetadata(items[file]),
                                           content |-> items[file].content])
                     ELSE results,
                     items, file + 1, cfg)

RECURSIVE copyCleanFiles(_, _, _)
\* copyCleanFiles(processedFiles), lines 267-294, every write succeeding
copyCleanFiles(out, s, results) ==
  IF results = <<>> THEN [output |-> out, stats |-> s]
  ELSE LET c == copyCleanFile(out, s, Head(results), "ok")
       IN copyCleanFiles(c.output, c.stats, Tail(results))

\* run(), lines 210-242, of a pipeline whose statistics are s when it starts,
\* on a readable root with an empty output root.
run(s, items, cfg) ==
  LET p == processAll(s, <<>>, items, 1, cfg)
      c == copyCleanFiles([content |-> {}, sidecar |-> {}], p.stats, p.processedFiles)
  IN [stats |-> c.stats, processedFiles |-> p.processedFiles, output |-> c.output,
      emitted |-> <<getReport(c.stats), Manifest(getReport(c.stats), cfg)>>]

\* A pipeline whose statistics are those of the latest pipeline of the
\* process.
NewDatasetStats_Shared == stats

\* new MLPipeline(), lines 205-208: this.stats = new DatasetStats(), whose
\* constructor calls reset().
NewDatasetStats == reset

InitRerun ==
  /\ CONFIG \in Configs
  /\ \E tree \in RerunTrees :
       /\ fs = [rootOk |-> TRUE, items |-> tree]
       /\ files = [i \in 1..Len(tree) |-> i]
  /\ pc = "idle" /\ idx = 1 /\ cidx = 1
  /\ stats = reset
  /\ processedFiles = <<>>
  /\ output = [content |-> {}, sidecar |-> {}]
  /\ emitted = <<>>
  /\ exitCode = 0 /\ last = NoLast /\ faults = 0
  /\ probe = [op |-> "runs", how |-> <<>>, reports |-> <<>>]

\* The effect of one run() that starts from the statistics s.
Ran(s, how) ==
  LET r == run(s, fs.items, CONFIG)
  IN /\ stats' = r.stats
     /\ processedFiles' = r.processedFiles
     /\ output' = r.output
     /\ emitted' = r.emitted
     /\ pc' = "done"
     /\ probe' = [probe EXCEPT !.how = Append(@, how), !.reports = Append(@, r.emitted[1])]
     /\ UNCHANGED <<CONFIG, fs, files, idx, cidx, exitCode, last, faults>>

\* new MLPipeline().run(), as the CLI does (lines 350-356); the output root
\* was cleared.
RunNewPipeline ==
  /\ probe.op = "runs" /\ Len(probe.how) < 2
  /\ Ran(NewDatasetStats, "new")

\* pipeline.run() once more on the MLPipeline that already ran; the output
\* root was cleared.
RunSamePipeline ==
  /\ probe.op = "runs" /\ Len(probe.how) = 1
  /\ Ran(stats, "same")

NextRerun == RunNewPipeline \/ RunSamePipeline

RerunSpec == InitRerun /\ [][NextRerun]_vars

\* --------------------------------------------------------- the command line
\* The values of MAX_FILE_SIZE: unset (the empty value) or up to two
\* characters of a sign, digits and a letter.
SizeEnvValues == SeqsOf({"-", "0", "1", "3", "k"}, 0, 2)

DecimalDigits == <<"0", "1", "2", "3", "4", "5", "6", "7", "8", "9">>
IsDigit(c) == \E d \in DOMAIN DecimalDigits : DecimalDigits[d] = c
DigitValue(c) == (CHOOSE d \in DOMAIN DecimalDigits : DecimalDigits[d] = c) - 1

RECURSIVE LeadingDigits(_, _)
\* The value of the longest run of digits s starts with, after acc; <<>>
\* when s starts with no digit and nothing was read.
LeadingDigits(s, acc) ==
  IF s # <<>> /\ IsDigit(Head(s))
  THEN LeadingDigits(Tail(s), <<(IF acc = <<>> THEN 0 ELSE acc[1]) * 10 + DigitValue(Head(s))>>)
  ELSE acc

\* parseInt(string): an optional sign, then the leading digits; NaN (<<>>)
\* when there is none.  The result is <<n>> for the number n.
parseInt(s) ==
  LET negative == s # <<>> /\ Head(s) = "-"
      digits == LeadingDigits(IF negative THEN Tail(s) ELSE s, <<>>)
  IN IF digits = <<>> THEN <<>>
     ELSE IF negative THEN <<0 - digits[1]>> ELSE digits

\* CONFIG.maxFileSize, line 19: parseInt(process.env.MAX_FILE_SIZE) || default.
\* NaN and 0 are falsy and give the default (MaxFileSize here, 10 MB in the
\* source); any other number, negative ones included, is taken as it is.
maxFileSize(env) ==
  IF parseInt(env) = <<>> \/ parseInt(env)[1] = 0 THEN MaxFileSize ELSE parseInt(env)[1]

\* CONFIG as the module builds it when only MAX_FILE_SIZE is set (lines 14-22).
ConfigOfSize(env) ==
  [strictMode |-> FALSE, maxFileSize |-> maxFileSize(env), allowedOrigins |-> {"human"},
   excludePatterns |-> {}]

\* What readdirSync and statSync meet directly below the content root: an
\* item (a small one without metadata, an oversized one, a human-origin one
\* whose hash matches), a link whose target is gone, a sub-directory that
\* cannot be listed.
WalkItems ==
  { PlainItem(<<Doc>>, 1), PlainItem(<<Doc>>, MaxFileSize + 1),
    [PlainItem(<<Doc>>, 1) EXCEPT !.sidecar = "ok",
                                  !.sidecarMeta = Meta("human", "alice", "MIT", NoValue, "hashA")] }
WalkEntries ==
  {[kind |-> "item", item |-> it] : it \in WalkItems}
    \cup {[kind |-> "dangling", item |-> PlainItem(<<Doc>>, 1)],
          [kind |-> "closedDir", item |-> PlainItem(<<Doc>>, 1)]}

\* The content roots the command line is run on: a root that is missing or
\* cannot be listed, or a readable root with up to MaxItems entries.
WalkRoots ==
  {[state |-> st, entries |-> <<>>] : st \in {"missing", "unreadable"}}
    \cup {[state |-> "ok", entries |-> e] : e \in SeqsOf(WalkEntries, 0, MaxItems)}

\* A findFiles that leaves out what it cannot stat or list.
findFilesThrows_Tolerant(root) == FALSE

\* MLPipeline.findFiles(CONFIG.datasetPath), lines 244-260, throws: readdirSync
\* of the root (line 246) throws when the root is missing or unreadable;
\* statSync of an entry (line 250) throws on a link whose target is gone;
\* the recursive call (line 253) throws when readdirSync of the sub-directory
\* does.  Nothing in findFiles or run catches any of them.
findFilesThrows(root) ==
  \/ root.state # "ok"
  \/ \E i \in DOMAIN root.entries : root.entries[i].kind \in {"dangling", "closedDir"}

\* The items findFiles returns for a root it walks to the end.
WalkedItems(root) == [i \in DOMAIN root.entries |-> root.entries[i].item]

InitCli ==
  /\ Idle
  /\ \E env \in SizeEnvValues, root \in WalkRoots :
       /\ CONFIG = ConfigOfSize(env)
       /\ probe = [op |-> "ready", env |-> env, root |-> root, processFileCalls |-> 0]

\* node ml-pipeline.js, lines 350-356: new MLPipeline().run().  When
\* findFiles throws, run() rejects before its processing loop and the catch
\* handler exits with status 1; otherwise run() goes through every item,
\* copies, writes the reports, and the process ends with status 0.
RunCli ==
  /\ probe.op = "ready"
  /\ IF findFilesThrows(probe.root)
     THEN /\ pc' = "failed"
          /\ exitCode' = 1
          /\ probe' = [probe EXCEPT !.op = "ran"]
          /\ UNCHANGED <<stats, processedFiles, output, emitted>>
     ELSE LET r == run(NewDatasetStats, WalkedItems(probe.root), CONFIG)
          IN /\ stats' = r.stats
             /\ processedFiles' = r.processedFiles
             /\ output' = r.output
             /\ emitted' = r.emitted
             /\ pc' = "done"
             /\ exitCode' = ExitStatus(r.stats, CONFIG)
             /\ probe' = [probe EXCEPT !.op = "ran",
                                       !.processFileCalls = Len(WalkedItems(probe.root))]
  /\ UNCHANGED <<CONFIG, fs, files, idx, cidx, last, faults>>

NextCli == RunCli

CliSpec == InitCli /\ [][NextCli]_vars

\* --------------------------------------------------- statistics, call by call
\* The longest sequence of recordFile / recordError calls studied.
MaxCalls == 3

\* The recordFile calls processFile can make: a processed item carries a
\* valid record and any size, a skipped item its size and no record, an item
\* in error no record and size 0.
RecordFileInputs ==
  {RecFile(m, size, "processed") : m \in ValidMetas, size \in Sizes}
    \cup {RecFile(NoMeta, size, "skipped") : size \in {1, MaxFileSize + 1}}
    \cup {RecFile(NoMeta, 0, "error")}

NoReport == getReport(reset)

InitStats ==
  /\ CONFIG = ConfigOf(<<>>)
  /\ Idle
  /\ probe = [op |-> "stats", calls |-> <<>>, reported |-> FALSE, report |-> NoReport]

\* stats.recordFile(metadata, fileSize, status)
CallRecordFile ==
  /\ probe.op = "stats" /\ Len(probe.calls) < MaxCalls
  /\ \E call \in RecordFileInputs :
       /\ stats' = recordFile(stats, call.metadata, call.fileSize, call.status)
       /\ probe' = [probe EXCEPT !.calls = Append(@, call), !.reported = FALSE,
                                 !.report = NoReport]
  /\ UNCHANGED <<CONFIG, fs, pc, files, idx, processedFiles, cidx, output, emitted,
                 exitCode, last, faults>>

\* stats.recordError(file, error)
CallRecordError ==
  /\ probe.op = "stats" /\ Len(probe.calls) < MaxCalls
  /\ stats' = recordError(stats, 1, "EACCES")
  /\ probe' = [probe EXCEPT !.calls = Append(@, RecErr(1, "EACCES")), !.reported = FALSE,
                            !.report = NoReport]
  /\ UNCHANGED <<CONFIG, fs, pc, files, idx, processedFiles, cidx, output, emitted,
                 exitCode, last, faults>>

\* stats.getReport()
CallGetReport ==
  /\ probe.op = "stats" /\ ~probe.reported
  /\ probe' = [probe EXCEPT !.reported = TRUE, !.report = getReport(stats)]
  /\ UNCHANGED <<CONFIG, fs, pc, files, idx, stats, processedFiles, cidx, output, emitted,
                 exitCode, last, faults>>

NextStats == CallRecordFile \/ CallRecordError \/ CallGetReport

StatsSpec == InitStats /\ [][NextStats]_vars

\* ------------------------------------------------------------------ codecs
\* The longest author value of the records that are encoded and decoded.
MaxTextLen == 3

\* The fields of a record in the fixed order of the codecs; the first five
\* are required.
RequiredFields == <<"origin", "author", "timestamp", "contentHash", "hashAlgorithm">>
FieldOrder == RequiredFields \o <<"license", "toolchain">>

\* A field the record does not have, when values are character sequences.
Absent == <<>>
EmptyRecord == [f \in Range(FieldOrder) |-> Absent]

\* The valid records that are encoded: any author of up to MaxTextLen
\* characters, among them the delimiters of the compact header form, the
\* escape character and two characters of an escape sequence; a license with
\* delimiters or none; a toolchain or none.
TextChars == {"a", " ", ";", "=", "%", "3", "B"}
TextRecords ==
  { [origin |-> <<"a", "i">>, author |-> author, timestamp |-> <<"T">>,
     contentHash |-> <<"c", "3">>, hashAlgorithm |-> <<"s">>,
     license |-> license, toolchain |-> toolchain] :
      author \in SeqsOf(TextChars, 1, MaxTextLen),
      license \in {Absent, <<"=", ";">>},
      toolchain \in {Absent, <<"g">>} }

RECURSIVE Elements(_, _)
\* One [name, text] pair per field the record has, in the fixed order.
Elements(r, fields) ==
  IF fields = <<>> THEN <<>>
  ELSE (IF r[Head(fields)] = Absent THEN <<>>
        ELSE <<[name |-> Head(fields), text |-> r[Head(fields)]]>>)
       \o Elements(r, Tail(fields))

RECURSIVE Collect(_, _)
\* The record of the pairs whose name is a field name: a later pair
\* overwrites an earlier one of the same field, other pairs are ignored.
Collect(r, pairs) ==
  IF pairs = <<>> THEN r
  ELSE Collect(IF Head(pairs).name \in Range(FieldOrder)
               THEN [r EXCEPT ![Head(pairs).name] = Head(pairs).text] ELSE r,
               Tail(pairs))

\* metadata.toXML(): the sidecar document, one element per field.
toXML(r) == Elements(r, FieldOrder)

\* ContentMetadata.parseXML(xmlContent): every field of the document is
\* recovered.
parseXML(doc) == Collect(EmptyRecord, doc)

\* The escape sequences of the compact header form.
Escapes ==
  [c \in {";", "=", " ", "%"} |->
     CASE c = ";" -> <<"%", "3", "B">>
       [] c = "=" -> <<"%", "3", "D">>
       [] c = " " -> <<"%", "2", "0">>
       [] c = "%" -> <<"%", "2", "5">>]

RECURSIVE percentEncode_Delimiters(_)
\* A percent-encoding of the delimiters and whitespace alone.
percentEncode_Delimiters(v) ==
  IF v = <<>> THEN <<>>
  ELSE (IF Head(v) \in {";", "=", " "} THEN Escapes[Head(v)] ELSE <<Head(v)>>)
       \o percentEncode_Delimiters(Tail(v))

RECURSIVE percentEncode(_)
\* The value with ';', '=', whitespace and the escape character itself
\* replaced by their escape sequences.
percentEncode(v) ==
  IF v = <<>> THEN <<>>
  ELSE (IF Head(v) \in DOMAIN Escapes THEN Escapes[Head(v)] ELSE <<Head(v)>>)
       \o percentEncode(Tail(v))

RECURSIVE percentDecode(_)
\* Every escape sequence replaced by its character.
percentDecode(v) ==
  IF v = <<>> THEN <<>>
  ELSE IF Len(v) >= 3 /\ \E c \in DOMAIN Escapes : Escapes[c] = SubSeq(v, 1, 3)
  THEN <<CHOOSE c \in DOMAIN Escapes : Escapes[c] = SubSeq(v, 1, 3)>>
         \o percentDecode(SubSeq(v, 4, Len(v)))
  ELSE <<Head(v)>> \o percentDecode(Tail(v))

RECURSIVE joinPairs(_)
\* key=value pairs joined with ';'.  A key is one symbol of the line: field
\* names hold no delimiter.
joinPairs(pairs) ==
  IF pairs = <<>> THEN <<>>
  ELSE <<Head(pairs).name, "=">> \o percentEncode(Head(pairs).text)
       \o (IF Tail(pairs) = <<>> THEN <<>> ELSE <<";">> \o joinPairs(Tail(pairs)))

\* metadata.toHTTPHeader(): the single-line compact header form.
toHTTPHeader(r) == joinPairs(Elements(r, FieldOrder))

\* The decoding of the compact header form: the line is split on ';', each
\* piece on '=', the value is percent-decoded; the input is rejected when a
\* required field is absent.
parseHTTPHeader(line) ==
  LET pieces == split(line, ";")
      pairs == [i \in DOMAIN pieces |->
                  LET kv == split(pieces[i], "=")
                  IN IF Len(kv) = 2 /\ Len(kv[1]) = 1
                     THEN [name |-> kv[1][1], text |-> percentDecode(kv[2])]
                     ELSE [name |-> NoValue, text |-> Absent]]
      r == Collect(EmptyRecord, pairs)
  IN [rejected |-> \E i \in DOMAIN RequiredFields : r[RequiredFields[i]] = Absent,
      record |-> r]

\* The name of the tag of a field (X-Content-<Field>), and the same name in
\* lower case.
TagName ==
  [f \in Range(FieldOrder) |->
     CASE f = "origin" -> "X-Content-Origin"
       [] f = "author" -> "X-Content-Author"
       [] f = "timestamp" -> "X-Content-Timestamp"
       [] f = "contentHash" -> "X-Content-Checksum"
       [] f = "hashAlgorithm" -> "X-Content-Hash-Algorithm"
       [] f = "license" -> "X-Content-License"
       [] f = "toolchain" -> "X-Content-Toolchain"]
LowerCase(name) ==
  CASE name = "X-Content-Origin" -> "x-content-origin"
    [] name = "X-Content-Author" -> "x-content-author"
    [] name = "X-Content-Timestamp" -> "x-content-timestamp"
    [] name = "X-Content-Checksum" -> "x-content-checksum"
    [] name = "X-Content-Hash-Algorithm" -> "x-content-hash-algorithm"
    [] name = "X-Content-License" -> "x-content-license"
    [] name = "X-Content-Toolchain" -> "x-content-toolchain"
    [] OTHER -> name

\* metadata.toHTMLMeta(), in a page that has tags of its own: one tag per
\* field the record has, between the page's viewport and author tags.
toHTMLMeta(r) ==
  LET own == Elements(r, FieldOrder) IN
  <<[name |-> "viewport", text |-> <<"a">>]>>
    \o [i \in DOMAIN own |-> [name |-> TagName[own[i].name], text |-> own[i].text]]
    \o <<[name |-> "author", text |-> <<"B">>]>>

\* The decoding of the embedded tags: the name of each tag is brought to
\* lower case and looked up; tags of other names are ignored.
parseHTMLMeta(tags) ==
  Collect(EmptyRecord,
          [i \in DOMAIN tags |->
             LET known == {f \in Range(FieldOrder) :
                             LowerCase(TagName[f]) = LowerCase(tags[i].name)}
             IN [name |-> IF known = {} THEN NoValue ELSE CHOOSE f \in known : TRUE,
                 text |-> tags[i].text]])

InitCodec ==
  /\ CONFIG = ConfigOf(<<>>)
  /\ Idle
  /\ \E r \in TextRecords :
       probe = [op |-> "ready", record |-> r, encoded |-> <<>>, rejected |-> FALSE,
                decoded |-> EmptyRecord]

\* ContentMetadata.parseXML(metadata.toXML())
SidecarRoundTrip ==
  /\ probe.op = "ready"
  /\ probe' = [probe EXCEPT !.op = "sidecar", !.encoded = toXML(probe.record),
                            !.decoded = parseXML(toXML(probe.record))]
  /\ UNCHANGED <<CONFIG, fs, pc, files, idx, stats, processedFiles, cidx, output, emitted,
                 exitCode, last, faults>>

\* The compact header of the record, decoded.
HeaderRoundTrip ==
  /\ probe.op = "ready"
  /\ LET d == parseHTTPHeader(toHTTPHeader(probe.record))
     IN probe' = [probe EXCEPT !.op = "header", !.encoded = toHTTPHeader(probe.record),
                               !.rejected = d.rejected, !.decoded = d.record]
  /\ UNCHANGED <<CONFIG, fs, pc, files, idx, stats, processedFiles, cidx, output, emitted,
                 exitCode, last, faults>>

\* The embedded tags of the record, decoded.
EmbeddedRoundTrip ==
  /\ probe.op = "ready"
  /\ probe' = [probe EXCEPT !.op = "embedded", !.encoded = toHTMLMeta(probe.record),
                            !.decoded = parseHTMLMeta(toHTMLMeta(probe.record))]
  /\ UNCHANGED <<CONFIG, fs, pc, files, idx, stats, processedFiles, cidx, output, emitted,
                 exitCode, last, faults>>

NextCodec == SidecarRoundTrip \/ HeaderRoundTrip \/ EmbeddedRoundTrip

CodecSpec == InitCodec /\ [][NextCodec]_vars

\* -------------------------------------------------------------- validation
\* The record m without the fields of the set `missing`.
Without(m, missing) == [f \in DOMAIN m |-> IF f \in missing THEN NoValue ELSE m[f]]

\* The records validate() is run on: a valid record, recording either
\* digest, from which any set of required fields was removed.
Incomplete ==
  { Without([m EXCEPT !.contentHash = h], missing) :
      m \in ValidMetas, h \in {computeHash(c) : c \in Contents},
      missing \in SUBSET Range(RequiredFields) }

InitValidate ==
  /\ CONFIG = ConfigOf(<<>>)
  /\ Idle
  /\ \E m \in Incomplete :
       probe = [op |-> "ready", record |-> m, validation |-> validate(NoMeta)]

\* const validation = metadata.validate(), line 142: the result is a value
\* the caller inspects (line 143).
CallValidate ==
  /\ probe.op = "ready"
  /\ probe' = [probe EXCEPT !.op = "validate", !.validation = validate(probe.record)]
  /\ UNCHANGED <<CONFIG, fs, pc, files, idx, stats, processedFiles, cidx, output, emitted,
                 exitCode, last, faults>>

NextValidate == CallValidate

ValidateSpec == InitValidate /\ [][NextValidate]_vars

\* ------------------------------------------------------- the batch scripts
\* The most content files a script is run on.
MaxScriptFiles == 3

\* set -e (line 6 of both scripts): a simple command that ends with a
\* non-zero status, outside the condition of an if, ends the script with
\* that status.
errexit == TRUE

\* The exit status of (( expression )): 1 when the expression's value is 0.
\* The value of VAR++ is the value of VAR before the increment.
ArithmeticStatus(value) == IF value = 0 THEN 1 ELSE 0

\* The script ends with status `code`.
Exit(s, code) == [s EXCEPT !.exited = TRUE, !.status = code]

\* What validate_file meets for a content file: no sidecar next to it, a
\* sidecar that validate-content accepts (status 0), one it turns down
\* (status 1).
ValidationKinds == {"missing", "valid", "invalid"}

\* validation-script.sh, lines 21-25, before main runs.  calls counts the
\* validate_file calls begun, summary says whether lines 202-209 ran.
InitialCounters ==
  [TOTAL_FILES |-> 0, VALID_FILES |-> 0, INVALID_FILES |-> 0, MISSING_METADATA |-> 0,
   calls |-> 0, summary |-> FALSE, exited |-> FALSE, status |-> 0]

\* validate_file "$file", lines 45-99: the counters after the call and its
\* return status, or the script exited from within.
validate_file(s, kind) ==
  LET s1 == [s EXCEPT !.TOTAL_FILES = @ + 1, !.calls = @ + 1] IN     \* line 49
  IF errexit /\ ArithmeticStatus(s.TOTAL_FILES) # 0
  THEN [state |-> Exit(s1, 1), rc |-> 1]
  ELSE IF kind = "missing"
  THEN LET s2 == [s1 EXCEPT !.MISSING_METADATA = @ + 1] IN           \* line 61
       IF errexit /\ ArithmeticStatus(s1.MISSING_METADATA) # 0
       THEN [state |-> Exit(s2, 1), rc |-> 1]
       ELSE [state |-> s2, rc |-> 1]                                 \* line 62
  ELSE IF kind = "invalid"
  THEN IF errexit                                                    \* lines 68, 71
       THEN [state |-> Exit(s1, 1), rc |-> 1]
       ELSE [state |-> [s1 EXCEPT !.INVALID_FILES = @ + 1], rc |-> 1] \* lines 96-97
  ELSE LET s2 == [s1 EXCEPT !.VALID_FILES = @ + 1] IN                \* line 80
       IF errexit /\ ArithmeticStatus(s1.VALID_FILES) # 0
       THEN [state |-> Exit(s2, 1), rc |-> 1]
       ELSE [state |-> s2, rc |-> 0]                                 \* line 88

RECURSIVE validateEach(_, _)
\* The loop of main, lines 196-200, over the files that are left.
validateEach(s, found) ==
  IF found = <<>> THEN s
  ELSE LET r == validate_file(s, Head(found)) IN
       IF r.state.exited THEN r.state
       ELSE IF errexit /\ r.rc # 0 THEN Exit(r.state, r.rc)          \* line 198
       ELSE validateEach(r.state, Tail(found))

\* validation-script.sh main, lines 172-227.
validationMain(dirExists, STRICT_MODE, OUTPUT_FORMAT, found) ==
  IF ~dirExists THEN Exit(InitialCounters, 1)                        \* lines 179-182
  ELSE IF found = <<>> THEN Exit(InitialCounters, 0)                 \* lines 188-191
  ELSE LET s == validateEach(InitialCounters, found) IN
       IF s.exited THEN s
       ELSE LET p == [s EXCEPT !.summary = TRUE] IN                  \* lines 202-212
            IF /\ OUTPUT_FORMAT = "report" /\ p.INVALID_FILES > 0    \* lines 120-141
               /\ errexit /\ \E i \in DOMAIN found : found[i] # "valid"
            THEN Exit(p, 1)
            ELSE IF STRICT_MODE = "true" /\ p.INVALID_FILES > 0      \* lines 220-226
            THEN Exit(p, 1)
            ELSE Exit(p, 0)

InitValidationScript ==
  /\ CONFIG = ConfigOf(<<>>)
  /\ Idle
  /\ \E dirExists \in BOOLEAN, strict \in {"true", "false"},
        format \in {"summary", "report"},
        found \in SeqsOf(ValidationKinds, 0, MaxScriptFiles) :
       /\ ~dirExists => found = <<>>
       /\ probe = [op |-> "ready", dirExists |-> dirExists, STRICT_MODE |-> strict,
                   OUTPUT_FORMAT |-> format, files |-> found, result |-> InitialCounters]

\* validation-script.sh DATASET_DIR STRICT_MODE OUTPUT_FORMAT
RunValidationScript ==
  /\ probe.op = "ready"
  /\ probe' = [probe EXCEPT !.op = "ran",
                 !.result = validationMain(probe.dirExists, probe.STRICT_MODE,
                                           probe.OUTPUT_FORMAT, probe.files)]
  /\ UNCHANGED <<CONFIG, fs, pc, files, idx, stats, processedFiles, cidx, output, emitted,
                 exitCode, last, faults>>

NextValidationScript == RunValidationScript

ValidationScriptSpec == InitValidationScript /\ [][NextValidationScript]_vars

\* The names of the files of the tagged dataset.
Gpt == <<"g", "p", "t">>
AiGenerated == <<"a", "i", "-", "g", "e", "n", "e", "r", "a", "t", "e", "d">>
ChatGpt == <<"c", "h", "a", "t", "g", "p", "t">>
Hybrid == <<"h", "y", "b", "r", "i", "d">>
Assisted == <<"a", "s", "s", "i", "s", "t", "e", "d">>
TaggedNames == {Doc, Gpt \o Doc, Doc \o Hybrid}

\* determine_origin "$file", lines 34-46
determine_origin(filename) ==
  IF Includes(filename, AiGenerated) \/ Includes(filename, Gpt) \/ Includes(filename, ChatGpt)
  THEN "ai"
  ELSE IF Includes(filename, Hybrid) \/ Includes(filename, Assisted) THEN "hybrid"
  ELSE "human"

\* A content file of the tagged dataset: its name, and whether tag-content
\* succeeds on it.
TaggedFiles == [name : TaggedNames, tags : BOOLEAN]

\* dataset-tagging.sh, lines 101-102.  tagged lists the origins tag-content
\* was called with.
InitialCounts ==
  [success_count |-> 0, error_count |-> 0, tagged |-> <<>>, exited |-> FALSE, status |-> 0]

\* tag_file "$file", lines 49-74: its return status.  It runs as the
\* condition of an if (line 106), where set -e has no effect.
tag_file(file) == IF file.tags THEN 0 ELSE 1

RECURSIVE tagEach(_, _)
\* The loop of main, lines 104-112, over the files that are left.
tagEach(s, found) ==
  IF found = <<>> THEN s
  ELSE LET file == Head(found)
           s1 == [s EXCEPT !.tagged = Append(@, determine_origin(file.name))]
           s2 == IF tag_file(file) = 0
                 THEN [s1 EXCEPT !.success_count = @ + 1]             \* line 107
                 ELSE [s1 EXCEPT !.error_count = @ + 1]               \* line 109
           counted == IF tag_file(file) = 0 THEN s.success_count ELSE s.error_count
       IN IF errexit /\ ArithmeticStatus(counted) # 0 THEN Exit(s2, 1)
          ELSE tagEach(s2, Tail(found))

\* dataset-tagging.sh main, lines 77-124.
taggingMain(dirExists, found) ==
  IF ~dirExists THEN Exit(InitialCounts, 1)                           \* lines 84-87
  ELSE IF found = <<>> THEN Exit(InitialCounts, 0)                    \* lines 93-96
  ELSE LET s == tagEach(InitialCounts, found) IN
       IF s.exited THEN s
       ELSE IF s.error_count > 0 THEN Exit(s, 1)                      \* lines 118-120
       ELSE Exit(s, 0)                                                \* lines 121-123, 159

InitTaggingScript ==
  /\ CONFIG = ConfigOf(<<>>)
  /\ Idle
  /\ \E dirExists \in BOOLEAN, found \in SeqsOf(TaggedFiles, 0, MaxScriptFiles) :
       /\ ~dirExists => found = <<>>
       /\ \A i, j \in DOMAIN found : i < j => found[i].name # found[j].name
       /\ probe = [op |-> "ready", dirExists |-> dirExists, files |-> found,
                   result |-> InitialCounts]

\* dataset-tagging.sh DATASET_DIR
RunTaggingScript ==
  /\ probe.op = "ready"
  /\ probe' = [probe EXCEPT !.op = "ran",
                            !.result = taggingMain(probe.dirExists, probe.files)]
  /\ UNCHANGED <<CONFIG, fs, pc, files, idx, stats, processedFiles, cidx, output, emitted,
                 exitCode, last, faults>>

NextTaggingScript == RunTaggingScript

TaggingScriptSpec == InitTaggingScript /\ [][NextTaggingScript]_vars

\* ------------------------------------------------- the origin of a tagged file
\* The most pieces a base name of the tagged dataset is made of.
MaxPieces == 2

\* The pieces of the names: the indicators of determine_origin, one of them
\* in upper case, and a piece that is no indicator.
NamePieces == {Doc, Gpt, ChatGpt, AiGenerated, Hybrid, Assisted, <<"G", "P", "T">>}

RECURSIVE Concat(_)
Concat(pieces) == IF pieces = <<>> THEN <<>> ELSE Head(pieces) \o Concat(Tail(pieces))

\* The paths find hands to tag_file: a base name of up to MaxPieces pieces,
\* directly in the dataset directory or in a sub-directory whose name is
\* itself an indicator or not.
TaggedPaths ==
  LET bases == {Concat(p) : p \in SeqsOf(NamePieces, 1, MaxPieces)} IN
  {<<base>> : base \in bases}
    \cup {<<dir, base>> : dir \in {Doc, Gpt, Hybrid}, base \in bases}

\* A determine_origin that matches the whole path.
filename_WholePath(file) == join(file)

\* local filename=$(basename "$file"), dataset-tagging.sh line 36
filename(file) == file[Len(file)]

InitOrigin ==
  /\ CONFIG = ConfigOf(<<>>)
  /\ Idle
  /\ \E path \in TaggedPaths :
       probe = [op |-> "ready", file |-> path, origin |-> NoValue]

\* local origin=$(determine_origin "$file"), dataset-tagging.sh line 51
CallDetermineOrigin ==
  /\ probe.op = "ready"
  /\ probe' = [probe EXCEPT !.op = "determine_origin",
                            !.origin = determine_origin(filename(probe.file))]
  /\ UNCHANGED <<CONFIG, fs, pc, files, idx, stats, processedFiles, cidx, output, emitted,
                 exitCode, last, faults>>

NextOrigin == CallDetermineOrigin

OriginSpec == InitOrigin /\ [][NextOrigin]_vars


\* ---------------------------------------------- the same items, two orders
\* The orders in which a listing of n items can come.
Orders(n) == {p \in [1..n -> 1..n] : \A i, j \in 1..n : i # j => p[i] # p[j]}

InitOrder ==
  /\ CONFIG \in Configs
  /\ \E tree \in RerunTrees :
       /\ fs = [rootOk |-> TRUE, items |-> tree]
       /\ files = [i \in 1..Len(tree) |-> i]
       /\ \E order \in Orders(Len(tree)) :
            probe = [op |-> "order", order |-> order, ran |-> FALSE, reordered |-> reset]
  /\ pc = "idle" /\ idx = 1 /\ cidx = 1
  /\ stats = reset
  /\ processedFiles = <<>>
  /\ output = [content |-> {}, sidecar |-> {}]
  /\ emitted = <<>>
  /\ exitCode = 0 /\ last = NoLast /\ faults = 0

\* new MLPipeline().run() on the items as listed, and the same on the items
\* listed in the other order (run, lines 226-233).
RunBothOrders ==
  /\ probe.op = "order" /\ ~probe.ran
  /\ LET r == run(NewDatasetStats, fs.items, CONFIG)
         other == [k \in 1..Len(fs.items) |-> fs.items[probe.order[k]]]
     IN /\ stats' = r.stats
        /\ processedFiles' = r.processedFiles
        /\ output' = r.output
        /\ emitted' = r.emitted
        /\ pc' = "done"
        /\ probe' = [probe EXCEPT !.ran = TRUE,
                                  !.reordered = run(NewDatasetStats, other, CONFIG).stats]
  /\ UNCHANGED <<CONFIG, fs, files, idx, cidx, exitCode, last, faults>>

NextOrder == RunBothOrders

OrderSpec == InitOrder /\ [][NextOrder]_vars


\* ------------------------------------------------------- POST /api/batch
\* The most elements in the files array of a request.
MaxBatch == 2

\* One element of the files array as express.json() parsed it: JSON null, or
\* an object with a filename, with or without content (a string of
\* characters), with or without metadata.origin.
BatchFile(kind, name, hasContent, content, origin) ==
  [kind |-> kind, filename |-> name, hasContent |-> hasContent, content |-> content,
   origin |-> origin]

JsonNull == BatchFile("null", NoValue, FALSE, <<>>, NoValue)

BatchFiles ==
  {JsonNull}
    \cup {BatchFile("object", name, TRUE, content, origin) :
            name \in {"a.txt", "b.txt"}, content \in {<<>>, <<"A">>}, origin \in {NoValue, "ai"}}
    \cup {BatchFile("object", name, FALSE, <<>>, origin) :
            name \in {"a.txt", "b.txt"}, origin \in {NoValue, "ai"}}

\* req.body: files is missing, something that is not an array, or an array;
\* defaultMetadata.origin is given or not.
BatchBodies ==
  {[files |-> shape, elements |-> <<>>, defaultOrigin |-> origin] :
      shape \in {"missing", "string"}, origin \in {NoValue, "hybrid"}}
    \cup {[files |-> "array", elements |-> elements, defaultOrigin |-> origin] :
            elements \in UNION {[1..n -> BatchFiles] : n \in 0..MaxBatch},
            origin \in {NoValue, "hybrid"}}

\* generateHeaders(content, metadata) of lib/formats/http-headers: the
\* headers of the metadata and of the digest of the content; content that
\* is not there cannot be hashed.
generateHeaders(hasContent, content, metadata) ==
  [thrown |-> ~hasContent, headers |-> [origin |-> metadata.origin, size |-> Len(content)]]

NoHeaders == [origin |-> NoValue, size |-> 0]

BatchResult(id, name, status, origin, headers, contentSize, error) ==
  [id |-> id, filename |-> name, status |-> status, origin |-> origin, headers |-> headers,
   contentSize |-> contentSize, error |-> error]

\* The callback of files.map, lines 580-606. Reading a property of null
\* throws a TypeError: inside the try block it is caught, inside the catch
\* block (file.filename, line 602) it leaves the callback.
processBatchFile(file, index, defaultOrigin) ==
  IF file.kind = "null"
  THEN [thrown |-> TRUE,
        result |-> BatchResult(index, NoValue, "error", NoValue, NoHeaders, 0, "TypeError")]
  ELSE LET origin == IF file.origin # NoValue THEN file.origin
                     ELSE IF defaultOrigin # NoValue THEN defaultOrigin
                     ELSE "human"
           h == generateHeaders(file.hasContent, file.content, [origin |-> origin])
       IN IF h.thrown \/ ~file.hasContent
          THEN [thrown |-> FALSE,
                result |-> BatchResult(index, file.filename, "error", NoValue, NoHeaders, 0,
                                       "TypeError")]
          ELSE [thrown |-> FALSE,
                result |-> BatchResult(index, file.filename, "processed", origin, h.headers,
                                       Len(file.content), NoValue)]

NoSummary == [totalFiles |-> 0, processed |-> 0, errors |-> 0]

\* The handler of POST /api/batch, lines 573-621; an exception that leaves
\* it reaches the error-handling middleware, which answers 500 (lines
\* 669-681).
postBatch(body) ==
  IF body.files # "array"
  THEN [status |-> 400, results |-> <<>>, summary |-> NoSummary]
  ELSE LET mapped == [i \in 1..Len(body.elements) |->
                        processBatchFile(body.elements[i], i - 1, body.defaultOrigin)]
           results == [i \in 1..Len(mapped) |-> mapped[i].result]
       IN IF \E i \in 1..Len(mapped) : mapped[i].thrown
          THEN [status |-> 500, results |-> <<>>, summary |-> NoSummary]
          ELSE [status |-> 200, results |-> results,
                summary |->
                  [totalFiles |-> Len(body.elements),
                   processed |-> Cardinality({i \in 1..Len(results) :
                                                results[i].status = "processed"}),
                   errors |-> Cardinality({i \in 1..Len(results) :
                                             results[i].status = "error"})]]

NoResponse == [status |-> 0, results |-> <<>>, summary |-> NoSummary]

InitBatch ==
  /\ CONFIG = ConfigOf(<<>>)
  /\ Idle
  /\ \E body \in BatchBodies :
       probe = [op |-> "batch", body |-> body, responded |-> FALSE, response |-> NoResponse]

\* app.post('/api/batch', ...) answers one request
PostBatch ==
  /\ probe.op = "batch" /\ ~probe.responded
  /\ probe' = [probe EXCEPT !.responded = TRUE, !.response = postBatch(probe.body)]
  /\ UNCHANGED <<CONFIG, fs, pc, files, idx, stats, processedFiles, cidx, output, emitted,
                 exitCode, last, faults>>

NextBatch == PostBatch

BatchSpec == InitBatch /\ [][NextBatch]_vars

\* ------------------------------------------------------------------ claims
\* The position of stage `name` among the stages of the latest processFile, 0
\* when it did not run.
Pos(name) ==
  IF name \in Range(last.stages)
  THEN CHOOSE i \in DOMAIN last.stages : last.stages[i] = name
  ELSE 0

\* The step is one call of processFile.
ProcessStep == idx' = idx + 1

OutputPaths == output.content \cup output.sidecar
ResultPaths == {processedFiles[i].filePath : i \in DOMAIN processedFiles}

\* C1: every processFile makes exactly one recordFile call, with one of the
\* statuses processed, skipped, error, whichever branch ends it; so totalFiles
\* is always the sum of the three counters, it counts the items handled so
\* far, and at the end of the run it is the number of items discovered.
C1_ExactlyOneRecordFile ==
  /\ stats.totalFiles = stats.processedFiles + stats.skippedFiles + stats.errorFiles
  /\ last.file # 0 => /\ last.calls = 1
                      /\ last.status \in {"processed", "skipped", "error"}
  /\ pc \in {"processing", "copying", "done"} => stats.totalFiles = idx - 1
  /\ pc = "done" => stats.totalFiles = Len(files)

\* A run of two items has ended, one item through the catch branch.
C1_Witness ==
  /\ pc = "done" /\ Len(files) = 2
  /\ last.stages = <<"stat">> /\ last.status = "error"
  /\ stats.processedFiles = 1 /\ stats.errorFiles = 1

C3_ExitStatus ==
  pc = "done" =>
    IF CONFIG.strictMode /\ stats.errorFiles >= 1 THEN exitCode # 0 ELSE exitCode = 0

\* The latest item got as far as a validated metadata record and its content
\* does not hash to the recorded contentHash.
LastTampered ==
  last.file # 0 /\ Pos("validate") # 0 /\ last.facts.valid /\ last.facts.tampered

IntegrityEntry(file) == [file |-> file, error |-> "Content integrity check failed"]

\* C4: in strict mode an item with validated metadata whose content does not
\* hash to contentHash ends Errored, with an entry in errors, and nothing of
\* it is written under the output root.
C4_StrictTamperedErrored ==
  (CONFIG.strictMode /\ LastTampered) =>
     /\ last.status = "error"
     /\ \E i \in DOMAIN stats.errors : stats.errors[i].file = last.file
     /\ last.file \notin OutputPaths
     /\ last.file \notin ResultPaths

\* C5: in lenient mode an item whose content does not hash to contentHash is
\* Accepted (counted as processed, written to the output) when its origin is
\* allowed, and Skipped when it is not.
C5_LenientTamperedAccepted ==
  (~CONFIG.strictMode /\ LastTampered) =>
     IF last.facts.origin \in CONFIG.allowedOrigins
     THEN last.status = "processed" /\ last.file \in ResultPaths
     ELSE last.status = "skipped" /\ last.file \notin ResultPaths

\* C6: an integrity-failure entry is recorded for every item with valid
\* metadata whose content does not hash to contentHash, in both modes and
\* whatever its origin.
C6_TamperedAlwaysLogged ==
  LastTampered => \E i \in DOMAIN stats.errors : stats.errors[i] = IntegrityEntry(last.file)

\* C7: the stages of an item run in the order extraction, validation,
\* integrity verification, filtering: the origin filter never runs before the
\* integrity check, nor the integrity check before the validation.
C7_StageOrder ==
  last.file # 0 =>
    /\ Pos("filter") # 0 => (Pos("integrity") # 0 /\ Pos("integrity") < Pos("filter"))
    /\ Pos("integrity") # 0 => (Pos("validate") # 0 /\ Pos("validate") < Pos("integrity"))
    /\ Pos("validate") # 0 => (Pos("extract") # 0 /\ Pos("extract") < Pos("validate"))

\* C8: an item whose extracted metadata fails validate() ends Errored, in both
\* modes and whatever its origin: errorFiles grows by one, skippedFiles and
\* processedFiles do not change, one entry naming the item and the violation
\* is appended to errors, and the item never reaches the output.
C8_InvalidMetadataErrored ==
  /\ [][(ProcessStep /\ last'.facts.hasMeta /\ ~last'.facts.valid) =>
          /\ last'.status = "error"
          /\ stats'.errorFiles = stats.errorFiles + 1
          /\ stats'.skippedFiles = stats.skippedFiles
          /\ stats'.processedFiles = stats.processedFiles
          /\ stats'.errors = Append(stats.errors,
                 [file |-> last'.file, error |-> "Invalid metadata: MissingField(author)"])
          /\ processedFiles' = processedFiles]_vars
  /\ [](/\ \A i \in DOMAIN processedFiles : validate(processedFiles[i].metadata).isValid
        /\ OutputPaths \subseteq ResultPaths)

\* In a lenient run an item of a disallowed origin (ai) whose metadata lacks
\* the author has ended Errored.
C8_Witness ==
  /\ ~CONFIG.strictMode /\ last.file # 0
  /\ last.facts.hasMeta /\ ~last.facts.valid /\ last.facts.origin = "ai"
  /\ last.status = "error" /\ stats.errorFiles = 1 /\ stats.skippedFiles = 0

\* The run is Scenario A: lenient, allowed origins {human}, the three items.
ScenarioA ==
  fs \in ScenarioATrees /\ ~CONFIG.strictMode /\ CONFIG.allowedOrigins = {"human"}

\* C9: an item for which extraction yields no metadata ends Skipped and is no
\* error: skippedFiles grows by one, errorFiles and errors do not change.  The
\* run of Scenario A ends with processedFiles = 1, skippedFiles = 2,
\* errorFiles = 0 and origins.human = 1.
C9_NoMetadataSkipped ==
  /\ [][(ProcessStep /\ "extract" \in Range(last'.stages) /\ ~last'.facts.hasMeta) =>
          /\ last'.status = "skipped"
          /\ stats'.skippedFiles = stats.skippedFiles + 1
          /\ stats'.errorFiles = stats.errorFiles
          /\ stats'.processedFiles = stats.processedFiles
          /\ stats'.errors = stats.errors]_vars
  /\ []((ScenarioA /\ pc = "done") =>
          /\ emitted[1].summary.processedFiles = 1
          /\ emitted[1].summary.skippedFiles = 2
          /\ emitted[1].summary.errorFiles = 0
          /\ emitted[1].origins["human"] = 1)

\* The run of Scenario A has ended, the item without metadata handled last.
C9_Witness ==
  /\ ScenarioA /\ pc = "done"
  /\ fs.items[3] = "noMetadata" /\ last.file = 3 /\ last.status = "skipped"
  /\ stats.skippedFiles = 2

\* C10: an item with a source of metadata that exists and cannot be read ends
\* Errored, not Skipped.
C10_ExtractionIOFailureErrored ==
  (last.file # 0 /\ Pos("extract") # 0 /\ last.facts.ioFail) => last.status = "error"

\* The positions in trace of the steps on source, and of the steps of kind do.
StepsOn(trace, source) == {i \in DOMAIN trace : trace[i].source = source}
StepsOf(trace, do) == {i \in DOMAIN trace : trace[i].do = do}

C12_FirstValidRecord ==
  probe.op = "extractMetadata" =>
    LET it == probe.item IN
    /\ probe.metadata # NoMeta => validate(probe.metadata).isValid
    /\ (/\ it.sidecar = "ok" /\ ~validate(it.sidecarMeta).isValid
        /\ it.embedded = "ok" /\ validate(it.embeddedMeta).isValid)
         => probe.metadata = it.embeddedMeta

\* C13: a record whose origin is not among the allowed origins is rejected
\* whatever the mode and whether or not its content matches its hash: every
\* item counted as processed, every result handed to the copy loop and every
\* item written under the output root has an allowed origin, and an item with
\* a valid record of another origin ends Skipped and is not written.
C13_OnlyAllowedOrigins ==
  /\ \A i \in DOMAIN processedFiles :
        processedFiles[i].metadata.origin \in CONFIG.allowedOrigins
  /\ DOMAIN stats.originCounts = Origins
  /\ \A o \in Origins \ CONFIG.allowedOrigins : stats.originCounts[o] = 0
  /\ OutputPaths \subseteq ResultPaths
  /\ (last.file # 0 /\ last.status = "processed") => last.facts.origin \in CONFIG.allowedOrigins
  /\ (/\ last.file # 0 /\ Pos("validate") # 0 /\ last.facts.valid
      /\ last.facts.origin \notin CONFIG.allowedOrigins)
       => /\ last.status = "skipped" /\ ~last.ret
          /\ last.file \notin ResultPaths
          /\ last.file \notin OutputPaths

\* A lenient run that allows human only has ended: a hybrid item whose content
\* does not match its hash was skipped, and a human item was written.
C13_Witness ==
  /\ pc = "done" /\ ~CONFIG.strictMode /\ CONFIG.allowedOrigins = {"human"}
  /\ last.facts.origin = "hybrid" /\ last.facts.tampered /\ last.status = "skipped"
  /\ stats.originCounts["human"] = 1 /\ output.content # {}

\* The position of stage `name` among the stages of the call run alone, 0
\* when it did not run.
StagePos(name) ==
  IF name \in Range(probe.outcome.stages)
  THEN CHOOSE i \in DOMAIN probe.outcome.stages : probe.outcome.stages[i] = name
  ELSE 0

\* C14: the size filter comes before any read or parse of metadata.  An item
\* larger than maxFileSize ends Skipped with no sidecar or content read and
\* nothing parsed; an item of exactly maxFileSize is not rejected by the size
\* clause; and every input handed to a parser is one the size filter has
\* bounded: it is no larger than maxFileSize.
C14_SizeFilterFirst ==
  (probe.op = "processFile" /\ probe.item.statOk) =>
    LET it == probe.item
        r == probe.outcome
        tr == probe.trace
    IN /\ it.size > CONFIG.maxFileSize =>
            /\ tr = <<>>
            /\ r.stages = <<"stat", "size">>
            /\ LastStatus(r.ops) = "skipped" /\ ~r.ret
       /\ it.size = CONFIG.maxFileSize => r.stages # <<"stat", "size">>
       /\ tr # <<>> => (StagePos("size") # 0 /\ StagePos("size") < StagePos("extract"))
       /\ \A i \in StepsOf(tr, "parse") : tr[i].size <= CONFIG.maxFileSize

\* The pattern p occurs in the name s.
Occurs(p, s) == \E k \in 0..(Len(s) - Len(p)) : \A m \in 1..Len(p) : s[k + m] = p[m]

\* The entries of a comma-separated list: the stretches without a comma that
\* reach from the start or a comma to the end or a comma.
Entries(env) ==
  { SubSeq(env, b[1], b[2]) :
      b \in { c \in (1..(Len(env) + 1)) \X (0..Len(env)) :
                /\ c[1] <= c[2] + 1
                /\ (c[1] = 1 \/ env[c[1] - 1] = ",")
                /\ (c[2] = Len(env) \/ env[c[2] + 1] = ",")
                /\ \A k \in c[1]..c[2] : env[k] # "," } }

\* Some non-empty entry of EXCLUDE_PATTERNS occurs in the base name of the path.
NameExcluded ==
  \E p \in Entries(probe.env) :
     Len(p) > 0 /\ Occurs(p, probe.filePath[Len(probe.filePath)])

\* C15: the exclusion clause rejects an item exactly when a non-empty entry of
\* EXCLUDE_PATTERNS is a substring of its base name.  Such an item ends
\* Skipped before extraction; a pattern that occurs only in a directory of the
\* path excludes nothing, and neither does an empty EXCLUDE_PATTERNS.
C15_NameExclusion ==
  probe.op = "processPath" =>
    LET r == probe.outcome IN
    /\ probe.size <= CONFIG.maxFileSize =>
          ((r.stages = <<"stat", "size", "exclude">>) = NameExcluded)
    /\ NameExcluded =>
          /\ LastStatus(r.ops) = "skipped" /\ ~r.ret /\ RecordErrorCalls(r.ops) = 0
          /\ "extract" \notin Range(r.stages)
    /\ (probe.size <= CONFIG.maxFileSize /\ ~NameExcluded) => "extract" \in Range(r.stages)
    /\ (probe.size <= CONFIG.maxFileSize /\ \A i \in DOMAIN probe.env : probe.env[i] = ",")
          => "extract" \in Range(r.stages)

\* A pattern occurs in the directory of a path and not in its base name, and
\* the item went on to extraction; EXCLUDE_PATTERNS also has an empty entry.
C15_Witness ==
  /\ probe.op = "processPath"
  /\ probe.env = <<",", "a">> /\ probe.filePath = << <<"a">>, <<"b">> >>
  /\ probe.size = 1
  /\ "extract" \in Range(probe.outcome.stages)

RECURSIVE FilesBelow(_, _)
\* The paths of the files (the entries that are no directory) below a
\* directory, at any depth.
FilesBelow(directory, entries) ==
  UNION { IF entries[i].isDirectory
          THEN FilesBelow(Append(directory, entries[i].name), entries[i].entries)
          ELSE {Append(directory, entries[i].name)} : i \in DOMAIN entries }

RECURSIVE DirsBelow(_, _)
\* The paths of the directories below a directory, at any depth.
DirsBelow(directory, entries) ==
  UNION { IF entries[i].isDirectory
          THEN {Append(directory, entries[i].name)}
                 \cup DirsBelow(Append(directory, entries[i].name), entries[i].entries)
          ELSE {} : i \in DOMAIN entries }

\* The name is some prefix followed by the suffix.
HasSuffix(name, suffix) ==
  \E n \in 0..Len(name) : name = SubSeq(name, 1, n) \o suffix

\* C16: discovery returns, once each, the files at any depth below the root
\* whose name ends in .txt, .md, .html or .json; it returns no name that ends
\* in .meta.xml and no directory.
C16_Discovery ==
  probe.op = "findFiles" =>
    LET found == probe.files IN
    /\ \A i, j \in DOMAIN found : i # j => found[i] # found[j]
    /\ Range(found) =
         { path \in FilesBelow(<<>>, probe.root) :
             \E ext \in {DotTxt, DotMd, DotHtml, DotJson} : HasSuffix(path[Len(path)], ext) }
    /\ \A path \in Range(found) : ~HasSuffix(path[Len(path)], DotMetaXml)
    /\ Range(found) \cap DirsBelow(<<>>, probe.root) = {}

\* The root holds a sidecar and a directory named d.txt with a.txt in it:
\* discovery returned d.txt/a.txt alone.
C16_Witness ==
  /\ probe.op = "findFiles"
  /\ Len(probe.root) = 2
  /\ \E i \in DOMAIN probe.root : probe.root[i] = File(<<"a">> \o DotTxt \o DotMetaXml)
  /\ probe.files = << << <<"d">> \o DotTxt, <<"a">> \o DotTxt >> >>

\* The order of the characters of the names (the order of their code units).
CharOrder == <<".", "a", "b", "c", "d", "e", "h", "j", "l", "m", "n", "o", "s", "t", "x">>
Ord(c) == CHOOSE i \in DOMAIN CharOrder : CharOrder[i] = c

\* Lexical order of two names, and of two paths component by component.
NameLess(s, t) ==
  \E k \in 1..Len(t) :
     /\ k <= Len(s) + 1
     /\ \A m \in 1..(k - 1) : s[m] = t[m]
     /\ (k = Len(s) + 1 \/ Ord(s[k]) < Ord(t[k]))
PathLess(p, q) ==
  \E k \in 1..Len(q) :
     /\ k <= Len(p) + 1
     /\ \A m \in 1..(k - 1) : p[m] = q[m]
     /\ (k = Len(p) + 1 \/ NameLess(p[k], q[k]))

\* C17: discovery is depth-first with the entries of each directory in
\* lexical order, whatever the order in which the file system lists them: the
\* paths come out in lexical order, component by component.
C17_LexicalOrder ==
  probe.op = "findFiles" =>
    \A i, j \in DOMAIN probe.files : i < j => PathLess(probe.files[i], probe.files[j])

C19_StatsResetPerRun ==
  (probe.op = "runs" /\ Len(probe.how) = 2 /\ probe.how[2] = "same") =>
     /\ probe.reports[2].summary.totalFiles = Len(fs.items)
     /\ Len(probe.reports[2].errors) <= Len(fs.items)
     /\ probe.reports[2] = probe.reports[1]

\* The results of processFile that were counted as processed (Accepted): the
\* content hashes to the recorded contentHash.
Accepted ==
  { i \in DOMAIN processedFiles :
      verifyIntegrity(processedFiles[i].metadata, processedFiles[i].content) }

\* C20: at the end of a run the content and the sidecar of every Accepted item
\* are under the output root at the item's path relative to the content root,
\* and no two Accepted items share an output path.
C20_AcceptedWritten ==
  pc = "done" =>
    /\ \A i \in Accepted :
          /\ processedFiles[i].filePath \in output.content
          /\ processedFiles[i].filePath \in output.sidecar
    /\ \A i, j \in Accepted : i # j => processedFiles[i].filePath # processedFiles[j].filePath

\* C21: a run is aborted only when the content root does not exist or is not
\* readable; a sub-directory that cannot be listed or an entry below the root
\* that cannot be stat'ed does not abort it.
C21_OnlyRootAborts ==
  (probe.op = "ran" /\ pc = "failed") => probe.root.state # "ok"

\* C22: on a content root that does not exist or is unreadable the run
\* aborts before any item is processed: processFile is never called, the
\* statistics stay in their reset state, no report or manifest is written and
\* the process completes with a non-zero status.
C22_MissingRootAborts ==
  (probe.op = "ran" /\ probe.root.state # "ok") =>
    /\ pc = "failed"
    /\ probe.processFileCalls = 0
    /\ stats = reset
    /\ processedFiles = <<>>
    /\ emitted = <<>>
    /\ output = [content |-> {}, sidecar |-> {}]
    /\ exitCode # 0

\* The run on a missing root has ended.
C22_Witness ==
  probe.op = "ran" /\ probe.root.state = "missing" /\ pc = "failed"

\* C23: a negative maximum item size is a fatal configuration error: the run
\* aborts before any item is processed, it does not go through the items with
\* the negative threshold.
C23_NegativeSizeAborts ==
  (probe.op = "ran" /\ parseInt(probe.env) # <<>> /\ parseInt(probe.env)[1] < 0) =>
    /\ pc = "failed"
    /\ probe.processFileCalls = 0
    /\ exitCode # 0

\* The recordFile calls made so far for processed items, and their sizes.
ProcessedCalls ==
  {i \in DOMAIN probe.calls :
     probe.calls[i].op = "recordFile" /\ probe.calls[i].status = "processed"}
ProcessedSizes == {probe.calls[i].fileSize : i \in ProcessedCalls}

RECURSIVE SumOfSizes(_)
SumOfSizes(indices) ==
  IF indices = {} THEN 0
  ELSE LET i == CHOOSE j \in indices : TRUE
       IN probe.calls[i].fileSize + SumOfSizes(indices \ {i})

\* The values a field takes among the processed items that have it.
ValuesSeen(field) ==
  {probe.calls[i].metadata[field] : i \in ProcessedCalls} \ {NoValue}

\* C24: after any sequence of recordFile / recordError calls getReport
\* returns the aggregated state: the four summary counters are the stored
\* ones; authors, licenses and toolchains count the distinct values seen
\* among the processed items; fileSize.total, min and max are the sum, the
\* least and the greatest of the processed sizes, fileSize.average is
\* total / processedFiles rounded to the nearest integer, so that
\* min <= average <= max; with no processed item the four are 0.
C24_ReportMatchesState ==
  (probe.op = "stats" /\ probe.reported) =>
    LET rep == probe.report
        n == Cardinality(ProcessedCalls)
        total == SumOfSizes(ProcessedCalls)
    IN /\ rep.summary.totalFiles = stats.totalFiles
       /\ rep.summary.processedFiles = stats.processedFiles
       /\ rep.summary.skippedFiles = stats.skippedFiles
       /\ rep.summary.errorFiles = stats.errorFiles
       /\ rep.summary.processedFiles = n
       /\ rep.authors = Cardinality(ValuesSeen("author"))
       /\ rep.licenses = Cardinality(ValuesSeen("license"))
       /\ rep.toolchains = Cardinality(ValuesSeen("toolchain"))
       /\ rep.fileSize.total = total
       /\ n > 0 =>
            /\ rep.fileSize.min \in ProcessedSizes
            /\ \A size \in ProcessedSizes : rep.fileSize.min <= size
            /\ rep.fileSize.max \in ProcessedSizes
            /\ \A size \in ProcessedSizes : size <= rep.fileSize.max
            \* the nearest integer to total / n, halves going up
            /\ 2 * n * rep.fileSize.average - n <= 2 * total
            /\ 2 * total < 2 * n * rep.fileSize.average + n
            /\ rep.fileSize.min <= rep.fileSize.average
            /\ rep.fileSize.average <= rep.fileSize.max
       /\ n = 0 =>
            /\ rep.fileSize.min = 0 /\ rep.fileSize.max = 0
            /\ rep.fileSize.average = 0 /\ rep.fileSize.total = 0

\* A report after two processed items of 1 and MaxFileSize bytes by two
\* authors, and one after a skipped item alone.
C24_Witness ==
  /\ probe.op = "stats" /\ probe.reported
  /\ Cardinality(ProcessedCalls) = 2
  /\ ProcessedSizes = {1, MaxFileSize}
  /\ probe.report.authors = 2
  /\ probe.report.summary.totalFiles = 3

IntegrityBranchTaken ==
  \E i \in DOMAIN probe.outcome.ops :
     probe.outcome.ops[i] = RecErr(1, "Content integrity check failed")

\* C26: the integrity branch of processFile is taken for an item exactly
\* when the content read from the item hashes to a value different from the
\* contentHash of its record; the verdict depends on the bytes and on the
\* recorded hash alone, and no item whose content was not read takes the
\* branch.
C26_IntegrityBranch ==
  probe.op = "processFile" =>
    /\ "read" \in Range(probe.outcome.stages) /\ probe.item.readOk
         => (IntegrityBranchTaken
               <=> computeHash(probe.item.content) # probe.metadata.contentHash)
    /\ IntegrityBranchTaken => "integrity" \in Range(probe.outcome.stages)

\* A human-origin item whose record holds the hash of other bytes took the
\* integrity branch, and one whose bytes match did not.
C26_Witness ==
  /\ probe.op = "processFile"
  /\ "integrity" \in Range(probe.outcome.stages)
  /\ probe.metadata.origin = "human"
  /\ probe.item.content = "B" /\ probe.metadata.contentHash = computeHash("A")
  /\ IntegrityBranchTaken

\* The reason that names a missing required field.
MissingReason ==
  [f \in Range(RequiredFields) |->
     CASE f = "origin" -> "MissingField(origin)"
       [] f = "author" -> "MissingField(author)"
       [] f = "timestamp" -> "MissingField(timestamp)"
       [] f = "contentHash" -> "MissingField(contentHash)"
       [] f = "hashAlgorithm" -> "MissingField(hashAlgorithm)"]

\* The positions in the fixed order of the required fields the record lacks.
MissingPositions ==
  {i \in DOMAIN RequiredFields : probe.record[RequiredFields[i]] = NoValue}

C28_ValidationExitStatus ==
  (probe.op = "ran" /\ probe.dirExists) =>
    /\ probe.result.exited
    /\ probe.result.status \in {0, 1}
    /\ probe.result.status = 1
         <=> (probe.STRICT_MODE = "true" /\ probe.result.INVALID_FILES > 0)

\* C29: the validation script runs validate_file on every file it found, a
\* file without metadata or an invalid one not stopping the loop; when the
\* summary is printed TOTAL_FILES is the number of files found and is the sum
\* of VALID_FILES, INVALID_FILES and MISSING_METADATA.
C29_EveryFileValidated ==
  (probe.op = "ran" /\ probe.dirExists /\ probe.files # <<>>) =>
    /\ probe.result.calls = Len(probe.files)
    /\ probe.result.summary =>
         /\ probe.result.TOTAL_FILES = Len(probe.files)
         /\ probe.result.TOTAL_FILES =
              probe.result.VALID_FILES + probe.result.INVALID_FILES
                + probe.result.MISSING_METADATA

\* C30: the tagging script attempts every file it found, going on after a
\* success as after a failure: when it ends success_count + error_count is
\* the number of files found, and its status is non-zero exactly when some
\* file failed to tag.
C30_EveryFileTagged ==
  (probe.op = "ran" /\ probe.dirExists) =>
    /\ probe.result.exited
    /\ probe.result.success_count + probe.result.error_count = Len(probe.files)
    /\ probe.result.status # 0 <=> \E i \in DOMAIN probe.files : ~probe.files[i].tags

\* C31: determine_origin yields exactly one of human, ai, hybrid from the
\* base name alone: ai when the base name contains ai-generated, gpt or
\* chatgpt; otherwise hybrid when it contains hybrid or assisted; otherwise
\* human.  The ai rule wins over the hybrid rule, and the names of the
\* directories of the path play no part.
C31_DetermineOrigin ==
  probe.op = "determine_origin" =>
    LET base == probe.file[Len(probe.file)]
        ai == Occurs(AiGenerated, base) \/ Occurs(Gpt, base) \/ Occurs(ChatGpt, base)
        hybrid == Occurs(Hybrid, base) \/ Occurs(Assisted, base)
    IN /\ probe.origin \in {"human", "ai", "hybrid"}
       /\ ai => probe.origin = "ai"
       /\ (~ai /\ hybrid) => probe.origin = "hybrid"
       /\ (~ai /\ ~hybrid) => probe.origin = "human"

\* The file dochybrid in the directory gpt came out hybrid.
C31_Witness ==
  /\ probe.op = "determine_origin"
  /\ probe.file = <<Gpt, Doc \o Hybrid>>
  /\ probe.origin = "hybrid"

\* The paths of the results of processFile that were counted as processed.
CountedProcessed == {processedFiles[i].filePath : i \in Accepted}

\* C32: at the end of every run, strict or lenient, what is written under
\* the output root belongs to items counted as processed: no item counted in
\* errorFiles or skippedFiles has its content or its sidecar in the output,
\* and no more items are written than processedFiles counts.
C32_OutputOnlyProcessed ==
  pc = "done" =>
    /\ OutputPaths \subseteq CountedProcessed
    /\ Cardinality(OutputPaths) <= stats.processedFiles

\* C33: when the manifest written at the end of the run says
\* integrityVerified and metadataCompliant, every item written to the output
\* root has a record that passes validate() and content that hashes to its
\* contentHash.
C33_ManifestFlagsHold ==
  (pc = "done" /\ emitted # <<>>
     /\ emitted[2].qualityMetrics.integrityVerified
     /\ emitted[2].qualityMetrics.metadataCompliant) =>
    \A i \in DOMAIN processedFiles :
       processedFiles[i].filePath \in OutputPaths =>
         /\ validate(processedFiles[i].metadata).isValid
         /\ computeHash(processedFiles[i].content) = processedFiles[i].metadata.contentHash

\* C34: the output of an item is all or nothing: at the end of a run no
\* content is in the output without its sidecar, no sidecar without its
\* content, and every item counted as processed has both.
C34_AtomicOutput ==
  pc = "done" =>
    /\ output.content = output.sidecar
    /\ CountedProcessed \subseteq output.content \cap output.sidecar


\* C35: the percentages a run emits are numbers from 0 to 100 in every run,
\* also when nothing was processed or nothing was found (percentages are
\* held in tenths, so 100 per cent is 1000): successRate in the report and
\* humanContentPercentage in the manifest, the latter being
\* 100 * origins.human / processedFiles when processedFiles > 0.
C35_PercentagesDefined ==
  (pc = "done" /\ emitted # <<>>) =>
    LET report == emitted[1]
        manifest == emitted[2]
    IN /\ report.summary.successRate \in 0..1000
       /\ manifest.qualityMetrics.humanContentPercentage \in 0..1000
       /\ report.summary.processedFiles > 0 =>
            manifest.qualityMetrics.humanContentPercentage
              = ToFixed1(report.origins["human"], report.summary.processedFiles)


RECURSIVE SumCounts(_)
SumCounts(counts) ==
  IF DOMAIN counts = {} THEN 0
  ELSE LET k == CHOOSE key \in DOMAIN counts : TRUE
       IN counts[k] + SumCounts([key \in DOMAIN counts \ {k} |-> counts[key]])

\* C36: in every state of a DatasetStats the values of originCounts add up
\* to processedFiles and so do the values of authorCounts; where only
\* validated records are counted, human + ai + hybrid = processedFiles.
C36_CountsAddUp ==
  /\ SumCounts(stats.originCounts) = stats.processedFiles
  /\ SumCounts(stats.authorCounts) = stats.processedFiles
  /\ stats.originCounts["human"] + stats.originCounts["ai"] + stats.originCounts["hybrid"]
       = stats.processedFiles

\* Two processed items by two authors, one of them without a license, and a
\* skipped item.
C36_Witness ==
  /\ probe.op = "stats"
  /\ stats.processedFiles = 2 /\ stats.skippedFiles = 1
  /\ Cardinality(DOMAIN stats.authorCounts) = 2
  /\ \E i \in ProcessedCalls : probe.calls[i].metadata.license = NoValue

\* The last call made on the DatasetStats, in the state after it.
LastCall == probe.calls[Len(probe.calls)]

\* C38: a recordFile call with status skipped or error adds one to
\* totalFiles and one to the matching counter and leaves everything else as
\* it was: processedFiles, the origin, author, license and toolchain counts,
\* the size aggregates (a skipped oversized item never moves fileSize.max)
\* and the errors list.
C38_SkippedAndErrorFrame ==
  [][(/\ probe.op = "stats"
      /\ Len(probe'.calls) = Len(probe.calls) + 1
      /\ LastCall'.op = "recordFile"
      /\ LastCall'.status \in {"skipped", "error"})
     => /\ stats'.totalFiles = stats.totalFiles + 1
        /\ stats'.skippedFiles
             = stats.skippedFiles + (IF LastCall'.status = "skipped" THEN 1 ELSE 0)
        /\ stats'.errorFiles
             = stats.errorFiles + (IF LastCall'.status = "error" THEN 1 ELSE 0)
        /\ stats'.processedFiles = stats.processedFiles
        /\ stats'.originCounts = stats.originCounts
        /\ stats'.authorCounts = stats.authorCounts
        /\ stats'.licenseCounts = stats.licenseCounts
        /\ stats'.toolchainCounts = stats.toolchainCounts
        /\ stats'.sizeStats = stats.sizeStats
        /\ stats'.errors = stats.errors]_vars

\* A skipped item of more than MaxFileSize bytes recorded after a processed
\* item of one byte: the greatest size is still one byte.
C38_Witness ==
  /\ probe.op = "stats" /\ Len(probe.calls) = 2
  /\ probe.calls[1].op = "recordFile" /\ probe.calls[1].status = "processed"
  /\ probe.calls[1].fileSize = 1
  /\ LastCall.op = "recordFile" /\ LastCall.status = "skipped"
  /\ LastCall.fileSize = MaxFileSize + 1
  /\ stats.sizeStats.max = 1 /\ stats.skippedFiles = 1 /\ stats.totalFiles = 2


\* The entries of the errors list that copyCleanFiles recorded.
CopyFailures == {k \in DOMAIN stats.errors : stats.errors[k].error = "EIO"}

\* C37: all through a run the errors list has at least one entry per item
\* counted in errorFiles; it only grows at its end, so that entries stay in
\* the order of the failures and none is removed or rewritten; an entry
\* added while an item is processed or copied names that item; and the
\* length of the list equals errorFiles exactly when no copy to the output
\* has failed.
C37_ErrorsList ==
  [][/\ Len(stats'.errors) >= Len(stats.errors)
     /\ \A k \in DOMAIN stats.errors : stats'.errors[k] = stats.errors[k]
     /\ \A k \in DOMAIN stats'.errors \ DOMAIN stats.errors :
          stats'.errors[k].file = (IF pc = "copying" THEN processedFiles[cidx].filePath
                                   ELSE files[idx])
     /\ Len(stats'.errors) >= stats'.errorFiles
     /\ (Len(stats'.errors) = stats'.errorFiles) <=> (CopyFailures' = {})]_vars

\* A run that ended with a validation failure, then an integrity failure,
\* then a failed copy: three entries for two items in error.
C37_Witness ==
  /\ pc = "done" /\ probe = NoProbe
  /\ stats.errorFiles = 2 /\ Len(stats.errors) = 3
  /\ stats.errors[1].file = files[1] /\ stats.errors[2].file = files[2]
  /\ CopyFailures = {3}


\* C39: the final counters do not depend on the order in which the items
\* are processed: a run over the same items in another order ends with the
\* same totalFiles, processedFiles, skippedFiles and errorFiles, the same
\* origin, author, license and toolchain counts and the same size minimum,
\* maximum and total.
C39_OrderIndependent ==
  (probe.op = "order" /\ probe.ran) =>
    /\ probe.reordered.totalFiles = stats.totalFiles
    /\ probe.reordered.processedFiles = stats.processedFiles
    /\ probe.reordered.skippedFiles = stats.skippedFiles
    /\ probe.reordered.errorFiles = stats.errorFiles
    /\ probe.reordered.originCounts = stats.originCounts
    /\ probe.reordered.authorCounts = stats.authorCounts
    /\ probe.reordered.licenseCounts = stats.licenseCounts
    /\ probe.reordered.toolchainCounts = stats.toolchainCounts
    /\ probe.reordered.sizeStats = stats.sizeStats

\* Two processed items, the larger one listed first, run in both orders.
C39_Witness ==
  /\ probe.op = "order" /\ probe.ran
  /\ Len(fs.items) = 2 /\ probe.order = <<2, 1>>
  /\ fs.items[1].size > fs.items[2].size
  /\ stats.processedFiles = 2
  /\ stats.sizeStats.min < stats.sizeStats.max


\* C40: every POST /api/batch whose files field is an array is answered
\* with one result per element, in the order of the elements, result i
\* carrying id i (counted from 0) and status processed or error; an element
\* that fails does not keep the others from being processed (an element
\* with content is processed whatever the others are); and
\* summary.processed + summary.errors = summary.totalFiles = the number of
\* elements.
C40_BatchResults ==
  (probe.op = "batch" /\ probe.responded /\ probe.body.files = "array") =>
    LET elements == probe.body.elements
        response == probe.response
    IN /\ response.status = 200
       /\ Len(response.results) = Len(elements)
       /\ \A i \in 1..Len(response.results) :
            /\ response.results[i].id = i - 1
            /\ response.results[i].status \in {"processed", "error"}
       /\ \A i \in 1..Len(elements) :
            (elements[i].kind = "object" /\ elements[i].hasContent)
              => /\ i <= Len(response.results)
                 /\ response.results[i].status = "processed"
                 /\ response.results[i].filename = elements[i].filename
       /\ response.summary.totalFiles = Len(elements)
       /\ response.summary.processed + response.summary.errors = response.summary.totalFiles

====
